---- MODULE Spec2Model ----
(***************************************************************************)
(* Model of the calendar application's configuration codec (compressYAML / *)
(* decompressJSON) and of its period resolver (normalizePeriods /          *)
(* getColorsForDate / isDateInRange).                                      *)
(*                                                                         *)
(* Conventions                                                             *)
(*  - A date string "YYYY-MM-DD" is represented by its day number, the     *)
(*    count of whole days since 1970-01-01 (negative before it).  Parsing  *)
(*    (new Date(s).getTime()) and formatting (toISOString().split('T')[0]) *)
(*    are the operators getTime and toISODate, which go through            *)
(*    milliseconds as the code does.  Day numbers stay close to the epoch  *)
(*    so that millisecond values stay within 32-bit integers.              *)
(*  - A JavaScript object is a record whose optional properties are        *)
(*    present or absent in its DOMAIN.                                     *)
(*  - A value that travels through JSON is tagged with its runtime type,   *)
(*    because decompressJSON decides on typeof / Array.isArray.            *)
(*  - A YAML text is represented by the object js-yaml loads from it.      *)
(***************************************************************************)
EXTENDS Integers, Sequences, FiniteSets, TLC

VARIABLES config, compact, decoded,
          highlightPeriods, timezone, periods, day, colors, usedPeriods,
          inRange, called,
          calendarYears, rendered,
          background,
          cfg, yamlString, validation,
          yaml, processed,
          configInput, timezoneSelect, calendarContainer, location,
          alertMessage, handler,
          configText, selectionStart, modalDisplay, lastHashPosition,
          pendingTimers, pickerEvent,
          tableMonth, monthTable

codecVars == <<config, compact, decoded>>
resolverVars == <<highlightPeriods, timezone, periods, day, colors,
                  usedPeriods, inRange, called>>
renderVars == <<calendarYears, rendered>>
gradientVars == <<background>>
configManagerVars == <<cfg, yamlString, validation>>
preprocessorVars == <<yaml, processed>>
appVars == <<configInput, timezoneSelect, calendarContainer, location,
             alertMessage, handler>>
pickerVars == <<configText, selectionStart, modalDisplay, lastHashPosition,
                pendingTimers, pickerEvent>>
monthVars == <<tableMonth, monthTable>>
uiVars == <<pickerVars, monthVars>>
restVars == <<renderVars, gradientVars, configManagerVars, preprocessorVars,
              appVars, uiVars>>
vars == <<config, compact, decoded, highlightPeriods, timezone, periods, day,
          colors, usedPeriods, inRange, called, calendarYears, rendered,
          background, cfg, yamlString, validation, yaml, processed,
          configInput, timezoneSelect, calendarContainer, location,
          alertMessage, handler,
          configText, selectionStart, modalDisplay, lastHashPosition,
          pendingTimers, pickerEvent, tableMonth, monthTable>>

(***************************************************************************)
(* Bounds of the model.                                                    *)
(***************************************************************************)
MaxYears == 2
MaxPeriods == 2
MaxDates == 3
\* The rendered calendar is scaled down: months in a year, days in a month.
MonthsPerYear == 2
DaysPerMonth == 2
MaxColors == 4
MaxLines == 3
MaxText == 3
MaxTimers == 2

(***************************************************************************)
(* Constants of the program.                                               *)
(***************************************************************************)
EPOCH_YEAR == 2024
UNIT_MS == 100000
MS_PER_DAY == 86400000

(***************************************************************************)
(* JavaScript values.                                                      *)
(***************************************************************************)
Undefined == [t |-> "undefined"]
JNull == [t |-> "null"]
NaN == [t |-> "NaN"]
Thrown == [t |-> "exception"]
None == [t |-> "none"]
JNum(n) == [t |-> "number", n |-> n]
JStr(s) == [t |-> "string", s |-> s]
JArr(a) == [t |-> "array", a |-> a]
JObj(o) == [t |-> "object", o |-> o]

IsArray(v) == v.t = "array"
TypeofNumber(v) == v.t \in {"number", "NaN"}

\* JavaScript truthiness, as used by `if (x)` and `a && b`.
Truthy(v) ==
  CASE v.t = "number" -> v.n # 0
    [] v.t = "string" -> v.s # ""
    [] v.t \in {"array", "object"} -> TRUE
    [] OTHER -> FALSE

\* a[i] with a 0-based index: undefined beyond the end.
At(a, i) == IF i < Len(a) THEN a[i + 1] ELSE Undefined

\* ToNumber, as applied by the `*` operator.
ToNumber(v) ==
  CASE v.t = "number" -> v
    [] v.t = "null" -> JNum(0)
    [] OTHER -> NaN

\* `x as string` has no runtime effect: a string is kept as the plain
\* scalar js-yaml dumps, any other value stays what it is.
FromJS(v) == IF v.t = "string" THEN v.s ELSE v

\* obj.key && ... for an optional string property.
HasTruthy(obj, key) == key \in DOMAIN obj /\ obj[key] # ""

RECURSIVE JSONValue(_)
\* JSON.stringify followed by JSON.parse: undefined and NaN inside an array
\* are written as null.
JSONValue(v) ==
  CASE v.t = "array" -> JArr([i \in 1..Len(v.a) |-> JSONValue(v.a[i])])
    [] v.t \in {"undefined", "NaN"} -> JNull
    [] OTHER -> v

(***************************************************************************)
(* Dates.                                                                  *)
(***************************************************************************)
\* new Date("YYYY-MM-DD").getTime(): UTC midnight of the day, in ms.
getTime(dateStr) == dateStr * MS_PER_DAY

\* new Date(ms).toISOString().split('T')[0]: the UTC calendar day of ms.
toISODate(ms) == ms \div MS_PER_DAY

MathFloorDiv(a, b) == a \div b
MathCeilDiv(a, b) == -((-a) \div b)

RECURSIVE Insert(_, _)
Insert(x, s) ==
  IF s = <<>> THEN <<x>>
  ELSE IF x - Head(s) < 0 THEN <<x>> \o s
  ELSE <<Head(s)>> \o Insert(x, Tail(s))

RECURSIVE SortAscending(_)
\* Array.prototype.sort((a, b) => a - b)
SortAscending(s) ==
  IF s = <<>> THEN <<>> ELSE Insert(Head(s), SortAscending(Tail(s)))

(***************************************************************************)
(* compressYAML                                                            *)
(***************************************************************************)
\* Variant: the years are put in ascending order before they are written.
compressYears_sorted(years) ==
  LET sorted == SortAscending(years)
  IN  [i \in 1..Len(sorted) |-> JNum(sorted[i] - EPOCH_YEAR)]

compressYears(years) == [i \in 1..Len(years) |-> JNum(years[i] - EPOCH_YEAR)]

WithLabel(result, period) ==
  IF HasTruthy(period, "label")
  THEN Append(result, JStr(period.label))
  ELSE result

compressRange(period) ==
  LET start == MathFloorDiv(getTime(period.start), UNIT_MS)
      dayDifference ==
        MathCeilDiv(getTime(period.end) - getTime(period.start), MS_PER_DAY)
  IN  JArr(WithLabel(<<JNum(start), JNum(dayDifference), JStr(period.color)>>,
                     period))

compressDifferences(sortedDates) ==
  LET baseDate == sortedDates[1]
  IN  [k \in 1..(Len(sortedDates) - 1) |->
         JNum((sortedDates[k + 1] - baseDate) \div (MS_PER_DAY \div UNIT_MS))]

compressDates(period) ==
  LET sortedDates ==
        SortAscending([i \in 1..Len(period.dates) |->
                         MathFloorDiv(getTime(period.dates[i]), UNIT_MS)])
  IN  IF Len(sortedDates) = 1
      THEN JArr(WithLabel(<<JNum(sortedDates[1]), JStr(period.color)>>, period))
      ELSE IF Len(sortedDates) = 0
      THEN JArr(WithLabel(<<JArr(<<Undefined>>), JStr(period.color)>>, period))
      ELSE JArr(WithLabel(
             <<JArr(<<JNum(sortedDates[1])>> \o compressDifferences(sortedDates)),
               JStr(period.color)>>, period))

compressPeriod(period) ==
  IF "start" \in DOMAIN period /\ "end" \in DOMAIN period
     /\ HasTruthy(period, "color")
  THEN compressRange(period)
  ELSE IF "dates" \in DOMAIN period /\ HasTruthy(period, "color")
  THEN compressDates(period)
  ELSE JObj(period)

\* Variant: the entries are collected in reverse order.
compressPeriods_reversed(ps) ==
  [i \in 1..Len(ps) |-> compressPeriod(ps[Len(ps) + 1 - i])]

compressPeriods(ps) == [i \in 1..Len(ps) |-> compressPeriod(ps[i])]

\* Variant: the "auto" sentinel is written like any other timezone.
compressTimezone_withAuto(parsedData) ==
  IF HasTruthy(parsedData, "timezone")
  THEN <<JStr(parsedData.timezone)>>
  ELSE <<>>

compressTimezone(parsedData) ==
  IF HasTruthy(parsedData, "timezone") /\ parsedData.timezone # "auto"
  THEN <<JStr(parsedData.timezone)>>
  ELSE <<>>

\* The text between the outer brackets is the list of top-level elements.
CompactText(elements) == [t |-> "text", valid |-> TRUE, body |-> elements]
GarbageText == [t |-> "text", valid |-> FALSE, body |-> <<>>]

\* Variant: a list the configuration lacks is left out of the output.
compressYAML_omitsMissing(parsedData) ==
  LET years == IF "years" \in DOMAIN parsedData
               THEN <<JArr(compressYears(parsedData.years))>> ELSE <<>>
      hps == IF "highlightPeriods" \in DOMAIN parsedData
             THEN <<JArr(compressPeriods(parsedData.highlightPeriods))>>
             ELSE <<>>
      compressedData == years \o hps \o compressTimezone(parsedData)
  IN  CompactText(JSONValue(JArr(compressedData)).a)

compressYAML(parsedData) ==
  LET years == IF "years" \in DOMAIN parsedData
               THEN compressYears(parsedData.years) ELSE <<>>
      hps == IF "highlightPeriods" \in DOMAIN parsedData
             THEN compressPeriods(parsedData.highlightPeriods) ELSE <<>>
      compressedData == <<JArr(years), JArr(hps)>> \o compressTimezone(parsedData)
  IN  CompactText(JSONValue(JArr(compressedData)).a)

(***************************************************************************)
(* decompressJSON                                                          *)
(***************************************************************************)
Ok(v) == [t |-> "ok", v |-> v]

\* parsedData[0].map(...): a TypeError when the element has no map method.
decompressYears(v) ==
  IF ~IsArray(v) THEN Thrown
  ELSE IF \E i \in 1..Len(v.a) : v.a[i].t # "number" THEN Thrown
  ELSE Ok([i \in 1..Len(v.a) |-> v.a[i].n + EPOCH_YEAR])

\* if (period[k]) { result.label = period[k] }
LabelFrom(result, v) ==
  IF Truthy(v) THEN [label |-> v] @@ result ELSE result

\* Variant: the day count is added in 100-second units instead of days.
decompressRange_endInUnits(p) ==
  LET startEpoch == At(p, 0).n * UNIT_MS
      startDate == toISODate(startEpoch)
      dayDifference == At(p, 1).n
      endDate == toISODate(startEpoch + dayDifference * UNIT_MS)
  IN  LabelFrom([start |-> startDate, end |-> endDate, color |-> At(p, 2)],
                At(p, 3))

decompressRange(p) ==
  LET startEpoch == At(p, 0).n * UNIT_MS
      startDate == toISODate(startEpoch)
      dayDifference == At(p, 1).n
      endDate == toISODate(startEpoch + dayDifference * 24 * 60 * 60 * 1000)
  IN  LabelFrom([start |-> startDate, end |-> endDate, color |-> At(p, 2)],
                At(p, 3))

RECURSIVE ChainDates(_, _)
\* differences.forEach: each difference is added to the last date pushed.
ChainDates(dates, differences) ==
  IF differences = <<>> THEN dates
  ELSE LET previousDate ==
             getTime(dates[Len(dates)]) + Head(differences).n * MS_PER_DAY
       IN  ChainDates(Append(dates, toISODate(previousDate)), Tail(differences))

\* new Date(NaN).toISOString() throws a RangeError.
decompressMultiple(p) ==
  LET list == At(p, 0).a
      base == ToNumber(At(list, 0))
      differences == SubSeq(list, 2, Len(list))
  IN  IF base = NaN THEN Thrown
      ELSE IF \E k \in 1..Len(differences) : differences[k].t # "number"
      THEN Thrown
      ELSE LabelFrom([dates |-> ChainDates(<<toISODate(base.n * UNIT_MS)>>,
                                           differences),
                      color |-> At(p, 1)], At(p, 2))

decompressSingle(p) ==
  LET units == ToNumber(At(p, 0))
  IN  IF units = NaN THEN Thrown
      ELSE LabelFrom([dates |-> <<toISODate(units.n * UNIT_MS)>>,
                      color |-> At(p, 1)], At(p, 2))

decompressPeriod(period) ==
  IF IsArray(period)
  THEN IF At(period.a, 0).t = "number" /\ At(period.a, 1).t = "number"
       THEN decompressRange(period.a)
       ELSE IF IsArray(At(period.a, 0))
       THEN decompressMultiple(period.a)
       ELSE decompressSingle(period.a)
  ELSE period

decompressPeriods(v) ==
  IF ~IsArray(v) THEN Thrown
  ELSE LET out == [i \in 1..Len(v.a) |-> decompressPeriod(v.a[i])]
       IN  IF \E i \in 1..Len(out) : out[i] = Thrown THEN Thrown ELSE Ok(out)

\* A decoded period holds an undefined colour when its entry was too short.
HasUndefined(p) == "color" \in DOMAIN p /\ p.color = Undefined

\* jsyaml.dump followed by load, for one period: a passed-through object is
\* itself, strings become plain scalars, a key with an undefined value is
\* left out.
DumpPeriod(p) ==
  IF "t" \in DOMAIN p THEN (IF p.t = "object" THEN p.o ELSE p)
  ELSE [k \in {f \in DOMAIN p : f \notin {"color", "label"} \/ p[f] # Undefined}
          |-> IF k \in {"color", "label"} THEN FromJS(p[k]) ELSE p[k]]

\* js-yaml releases before 4.1 throw on an undefined value, later ones leave
\* the key out; dumpStrict selects the former.
decompressJSON(text, dumpStrict) ==
  IF ~text.valid THEN JNull
  ELSE
    LET parsedData == text.body
        e0 == At(parsedData, 0)
        e1 == At(parsedData, 1)
        e2 == At(parsedData, 2)
        years == IF Truthy(e0) THEN decompressYears(e0) ELSE None
        hps == IF Truthy(e1) THEN decompressPeriods(e1) ELSE None
        d0 == IF years = None THEN <<>> ELSE [years |-> years.v]
        d1 == IF hps = None THEN d0
              ELSE [highlightPeriods |->
                      [i \in 1..Len(hps.v) |-> DumpPeriod(hps.v[i])]] @@ d0
        d2 == IF Truthy(e2) THEN [timezone |-> FromJS(e2)] @@ d1 ELSE d1
    IN  IF years = Thrown \/ hps = Thrown THEN JNull
        ELSE IF hps # None /\ dumpStrict
                /\ \E i \in 1..Len(hps.v) : HasUndefined(hps.v[i])
        THEN JNull
        ELSE d2

(***************************************************************************)
(* DateUtils                                                               *)
(***************************************************************************)
Zones == {"UTC", "Asia/Tokyo", "America/New_York"}

\* Hours east of UTC at the local midnight that starts a day.  New York
\* changes from -5 to -4 in the course of day 2, so day 2 lasts 23 hours.
UTCOffsetHours(zone, dateStr) ==
  CASE zone = "Asia/Tokyo" -> 9
    [] zone = "America/New_York" -> IF dateStr <= 2 THEN -5 ELSE -4
    [] OTHER -> 0

\* The time value of an Invalid Date (NaN), as an instant that no date of
\* the model has.
InvalidDate == -(24 * MS_PER_DAY)

\* A date string that names no calendar date, such as '2025-13-45'.
MalformedDateStr == toISODate(InvalidDate)

\* luxon.DateTime.fromISO(dateStr, { zone }).startOf('day').toJSDate(): for
\* a malformed date or a zone luxon does not know the DateTime is invalid,
\* startOf keeps it invalid and toJSDate gives new Date(NaN).
parseDateInTimezone(dateStr, zone) ==
  IF dateStr = MalformedDateStr \/ zone \notin Zones THEN InvalidDate
  ELSE getTime(dateStr) - UTCOffsetHours(zone, dateStr) * (MS_PER_DAY \div 24)

\* The calendar day, in the zone, that an instant falls on.
LocalDay(instant, zone) ==
  CHOOSE d \in -3..6 :
    /\ parseDateInTimezone(d, zone) <= instant
    /\ instant < parseDateInTimezone(d + 1, zone)

\* new Date(date) followed by setHours(0, 0, 0, 0) in the local zone.
normalizeDate(date, localZone) ==
  parseDateInTimezone(LocalDay(date, localZone), localZone)

isDateInRange(date, startDate, endDate, localZone) ==
  LET normalizedDate == normalizeDate(date, localZone)
      normalizedStart == normalizeDate(startDate, localZone)
      normalizedEnd == normalizeDate(endDate, localZone)
  IN  normalizedDate >= normalizedStart /\ normalizedDate <= normalizedEnd

(***************************************************************************)
(* CalendarGenerator                                                       *)
(***************************************************************************)
\* Variant: the listed dates are parsed as UTC, ignoring the timezone.
normalizePeriod_utcDates(period, index, zone) ==
  LET n0 == [order |-> index] @@ period
      n1 == IF "start" \in DOMAIN period
            THEN [startDate |-> parseDateInTimezone(period.start, zone)] @@ n0
            ELSE n0
      n2 == IF "end" \in DOMAIN period
            THEN [endDate |-> parseDateInTimezone(period.end, zone)] @@ n1
            ELSE n1
  IN  IF "dates" \in DOMAIN period
      THEN [dateObjects |->
              [k \in 1..Len(period.dates) |-> getTime(period.dates[k])]] @@ n2
      ELSE n2

normalizePeriod(period, index, zone) ==
  LET n0 == [order |-> index] @@ period
      n1 == IF "start" \in DOMAIN period
            THEN [startDate |-> parseDateInTimezone(period.start, zone)] @@ n0
            ELSE n0
      n2 == IF "end" \in DOMAIN period
            THEN [endDate |-> parseDateInTimezone(period.end, zone)] @@ n1
            ELSE n1
  IN  IF "dates" \in DOMAIN period
      THEN [dateObjects |->
              [k \in 1..Len(period.dates) |->
                 parseDateInTimezone(period.dates[k], zone)]] @@ n2
      ELSE n2

\* Variant: order counts from one.
normalizePeriods_oneBased(ps, zone) ==
  [i \in 1..Len(ps) |-> normalizePeriod(ps[i], i, zone)]

\* periods.map((period, index) => ...)
normalizePeriods(ps, zone) ==
  [i \in 1..Len(ps) |-> normalizePeriod(ps[i], i - 1, zone)]

\* Variant: the end day is excluded.
RangeHit_exclusiveEnd(date, period) ==
  date >= period.startDate /\ date < period.endDate

\* date >= period.startDate && date <= period.endDate: false when one of
\* the dates is an Invalid Date.
RangeHit(date, period) ==
  /\ InvalidDate \notin {date, period.startDate, period.endDate}
  /\ date >= period.startDate /\ date <= period.endDate

RECURSIVE DatePushes_noBreak(_, _, _)
\* Variant: the loop goes on after a match, as the inline loop of the
\* legacy createMonthTable does.
DatePushes_noBreak(date, dateObjects, k) ==
  IF k > Len(dateObjects) THEN 0
  ELSE (IF date = dateObjects[k] THEN 1 ELSE 0)
       + DatePushes_noBreak(date, dateObjects, k + 1)

RECURSIVE DatePushes(_, _, _)
\* The loop over period.dateObjects: the number of colours it pushes.  It
\* leaves the loop at the first entry equal to the date.
DatePushes(date, dateObjects, k) ==
  IF k > Len(dateObjects) THEN 0
  ELSE IF date # InvalidDate /\ date = dateObjects[k] THEN 1
  ELSE DatePushes(date, dateObjects, k + 1)

PeriodPushes(date, period) ==
  IF "startDate" \in DOMAIN period /\ "endDate" \in DOMAIN period
  THEN (IF RangeHit(date, period) THEN 1 ELSE 0)
  ELSE IF "dateObjects" \in DOMAIN period
  THEN DatePushes(date, period.dateObjects, 1)
  ELSE 0

Repeat(x, n) == [k \in 1..n |-> x]

RECURSIVE ColorsLoop(_, _, _, _)
\* for (let i = 0; i < periods.length; i++): i is the 0-based index, acc
\* holds the colours pushed and the set usedPeriods.
ColorsLoop(date, ps, i, acc) ==
  IF i >= Len(ps) THEN acc
  ELSE LET pushes == PeriodPushes(date, ps[i + 1])
       IN  ColorsLoop(date, ps, i + 1,
             [colors |-> acc.colors \o Repeat(ps[i + 1].color, pushes),
              usedPeriods |-> IF pushes > 0
                              THEN acc.usedPeriods \cup {i}
                              ELSE acc.usedPeriods])

\* Variant: the indices are collected in a new set.
getColorsForDate_freshSet(date, ps, used) ==
  ColorsLoop(date, ps, 0, [colors |-> <<>>, usedPeriods |-> {}])

getColorsForDate(date, ps, used) ==
  ColorsLoop(date, ps, 0, [colors |-> <<>>, usedPeriods |-> used])

(***************************************************************************)
(* Inputs of the codec.                                                    *)
(***************************************************************************)
Days == {-1, 0, 1, 3}
YearPool == {1900, 2023, 2024, 2025, 2100}
Labels == {"", "Trip"}
Timezones == {"auto", "UTC", "America/New_York"}

SeqsUpTo(S, n) == UNION {[1..k -> S] : k \in 0..n}

Labelled(p) == {p} \cup {[label |-> l] @@ p : l \in Labels}

RangePeriods(c) ==
  UNION {Labelled([start |-> s, end |-> e, color |-> c]) : s \in Days, e \in Days}

DatesPeriods(c) ==
  UNION {Labelled([dates |-> ds, color |-> c]) : ds \in SeqsUpTo(Days, MaxDates)}

\* Every range and every list of dates, one period per configuration.
SinglePeriodConfigs ==
  {[years |-> <<2025>>, highlightPeriods |-> <<p>>] :
     p \in RangePeriods("#ff0000") \cup DatesPeriods("#ff0000")}

PeriodPool ==
  { [start |-> 0, end |-> 1, color |-> "#ff0000", label |-> "Trip"],
    [start |-> 1, end |-> 1, color |-> "#00ff00"],
    [dates |-> <<3>>, color |-> "#0000ff", label |-> ""],
    [dates |-> <<1, -1>>, color |-> "#00ff00", label |-> "Trip"],
    [dates |-> <<0, 3, 1>>, color |-> "#ff0000"],
    [start |-> 0, end |-> 3, color |-> "", label |-> ""] }

\* Lists of periods of every shape, in every order.
MultiPeriodConfigs ==
  {[years |-> <<2024, 2025>>, highlightPeriods |-> ps] :
     ps \in SeqsUpTo(PeriodPool, MaxPeriods)}

\* Every list of years, with and without a timezone.
YearConfigs ==
  LET ps == <<[start |-> 0, end |-> 1, color |-> "#ff0000"]>>
      base == {[years |-> ys, highlightPeriods |-> ps] :
                 ys \in SeqsUpTo(YearPool, MaxYears)}
  IN  base \cup {[timezone |-> tz] @@ c : tz \in Timezones, c \in base}

Configs == SinglePeriodConfigs \cup MultiPeriodConfigs \cup YearConfigs

\* Compact strings as they can arrive in a URL.
EntryPool ==
  { JArr(<<>>),
    JArr(<<JNum(864)>>),
    JArr(<<JNum(864), JNum(2)>>),
    JArr(<<JNum(864), JNum(2), JStr("#ff0000")>>),
    JArr(<<JNum(864), JStr("#ff0000"), JStr("Trip")>>),
    JArr(<<JArr(<<>>), JStr("#ff0000")>>),
    JArr(<<JArr(<<JNum(0), JNum(1)>>), JStr("#00ff00")>>),
    JArr(<<JStr("x"), JStr("#ff0000")>>),
    JNum(7) }

Element0Pool == {JArr(<<JNum(1)>>), JArr(<<>>), JNum(0), JNum(5), JNull}
Element1Pool == {JArr(es) : es \in SeqsUpTo(EntryPool, MaxPeriods)} \cup {JNum(3)}
Element2Pool == {JStr("UTC")}

URLTexts ==
  {GarbageText, CompactText(<<>>)}
  \cup {CompactText(<<e0>>) : e0 \in Element0Pool}
  \cup {CompactText(<<e0, e1>>) : e0 \in Element0Pool, e1 \in Element1Pool}
  \cup {CompactText(<<e0, e1, e2>>) :
          e0 \in {JArr(<<JNum(1)>>)}, e1 \in Element1Pool, e2 \in Element2Pool}

(***************************************************************************)
(* The codec as a state machine: a configuration is compressed and the     *)
(* compact string is decompressed again, or a compact string arrives from  *)
(* a URL and is decompressed.                                              *)
(***************************************************************************)
\* Nothing has been rendered.
RenderIdle == calendarYears = <<>> /\ rendered = <<>>

GradientIdle == background = None

ConfigManagerIdle == cfg = None /\ yamlString = None /\ validation = None

PreprocessorIdle == yaml = <<>> /\ processed = <<>>

\* No page is loaded.
AppIdle ==
  /\ configInput = None
  /\ timezoneSelect = "auto"
  /\ calendarContainer = None
  /\ location = None
  /\ alertMessage = None
  /\ handler = "none"

\* No colour picker has been constructed.
PickerIdle ==
  /\ configText = <<>>
  /\ selectionStart = 0
  /\ modalDisplay = "none"
  /\ lastHashPosition = JNull
  /\ pendingTimers = 0
  /\ pickerEvent = "none"

\* No month table has been created.
MonthIdle == tableMonth = None /\ monthTable = None

UIIdle == PickerIdle /\ MonthIdle

RestIdle ==
  /\ RenderIdle
  /\ GradientIdle
  /\ ConfigManagerIdle
  /\ PreprocessorIdle
  /\ AppIdle
  /\ UIIdle

ResolverIdle ==
  /\ highlightPeriods = <<>>
  /\ timezone = "UTC"
  /\ periods = <<>>
  /\ day = 0
  /\ colors = <<>>
  /\ usedPeriods = {}
  /\ inRange = None
  /\ called = "none"

InitCodec ==
  /\ config \in Configs \cup {None}
  /\ compact = None
  /\ decoded = None
  /\ ResolverIdle
  /\ RestIdle

CompressYAML ==
  /\ config # None
  /\ compact = None
  /\ compact' = compressYAML(config)
  /\ UNCHANGED <<config, decoded>>
  /\ UNCHANGED <<resolverVars, restVars>>

ReceiveFromURL ==
  /\ config = None
  /\ compact = None
  /\ \E text \in URLTexts : compact' = text
  /\ UNCHANGED <<config, decoded>>
  /\ UNCHANGED <<resolverVars, restVars>>

DecompressJSON ==
  /\ compact # None
  /\ decoded = None
  /\ \E dumpStrict \in BOOLEAN : decoded' = decompressJSON(compact, dumpStrict)
  /\ UNCHANGED <<config, compact>>
  /\ UNCHANGED <<resolverVars, restVars>>

NextCodec == CompressYAML \/ ReceiveFromURL \/ DecompressJSON

SpecCodec == InitCodec /\ [][NextCodec]_vars

RoundTripped == config # None /\ decoded # None

(***************************************************************************)
(* Properties of the codec.                                                *)
(***************************************************************************)
IsRangePeriod(p) ==
  "start" \in DOMAIN p /\ "end" \in DOMAIN p /\ "dates" \notin DOMAIN p

IsDatesPeriod(p) ==
  "dates" \in DOMAIN p /\ "start" \notin DOMAIN p /\ "end" \notin DOMAIN p

RangeOrSingleDate(c) ==
  \A i \in 1..Len(c.highlightPeriods) :
    LET p == c.highlightPeriods[i]
    IN  IsRangePeriod(p) \/ (IsDatesPeriod(p) /\ Len(p.dates) = 1)

SameDates(p, q) ==
  IF IsRangePeriod(p)
  THEN IsRangePeriod(q) /\ q.start = p.start /\ q.end = p.end
  ELSE IsDatesPeriod(q) /\ q.dates = p.dates

SameColor(p, q) == "color" \in DOMAIN q /\ q.color = p.color

SameLabel(p, q) ==
  IF "label" \in DOMAIN p
  THEN "label" \in DOMAIN q /\ q.label = p.label
  ELSE "label" \notin DOMAIN q

LabelKeptUnlessEmpty(p, q) ==
  IF HasTruthy(p, "label")
  THEN "label" \in DOMAIN q /\ q.label = p.label
  ELSE "label" \notin DOMAIN q

TimezoneKeptUnlessAuto(c, d) ==
  IF "timezone" \in DOMAIN c /\ c.timezone # "auto"
  THEN "timezone" \in DOMAIN d /\ d.timezone = c.timezone
  ELSE "timezone" \notin DOMAIN d

DecodedShape ==
  /\ decoded # JNull
  /\ "years" \in DOMAIN decoded
  /\ "highlightPeriods" \in DOMAIN decoded
  /\ Len(decoded.highlightPeriods) = Len(config.highlightPeriods)

C2_DatesPreserved ==
  RoundTripped =>
    \A i \in 1..Len(config.highlightPeriods) :
      LET p == config.highlightPeriods[i]
      IN  (IsDatesPeriod(p) /\ Len(p.dates) >= 2) =>
            /\ DecodedShape
            /\ IsDatesPeriod(decoded.highlightPeriods[i])
            /\ decoded.highlightPeriods[i].dates = SortAscending(p.dates)

OnlyPeriod(c, i) ==
  [k \in DOMAIN c |->
     IF k = "highlightPeriods" THEN <<c.highlightPeriods[i]>> ELSE c[k]]

\* C3: compressYAML and decompressJSON keep the number and the order of the
\* periods; entry i of the compressed list and of the decoded list is what
\* the configuration holding period i alone gives.
C3_PeriodsPositional ==
  (config # None /\ compact # None) =>
    /\ Len(compact.body[2].a) = Len(config.highlightPeriods)
    /\ \A i \in 1..Len(config.highlightPeriods) :
         compact.body[2].a[i] = compressYAML(OnlyPeriod(config, i)).body[2].a[1]
    /\ decoded # None =>
         /\ DecodedShape
         /\ \A i \in 1..Len(config.highlightPeriods) :
              decoded.highlightPeriods[i] =
                decompressJSON(compressYAML(OnlyPeriod(config, i)),
                               TRUE).highlightPeriods[1]

C3_Witness ==
  /\ RoundTripped
  /\ Len(config.highlightPeriods) = 2
  /\ config.highlightPeriods[1] # config.highlightPeriods[2]
  /\ IsDatesPeriod(config.highlightPeriods[1])
  /\ IsRangePeriod(config.highlightPeriods[2])
  /\ IsDatesPeriod(decoded.highlightPeriods[1])
  /\ IsRangePeriod(decoded.highlightPeriods[2])

\* C4: year y is written as y - 2024 at the same position, unsorted and with
\* duplicates kept, and read back as offset + 2024, for years 1900..2100.
C4_YearOffsets ==
  (config # None /\ compact # None) =>
    /\ Len(compact.body[1].a) = Len(config.years)
    /\ \A i \in 1..Len(config.years) :
         compact.body[1].a[i] = JNum(config.years[i] - 2024)
    /\ decoded # None =>
         /\ decoded # JNull
         /\ "years" \in DOMAIN decoded
         /\ decoded.years = config.years

C4_Witness ==
  /\ RoundTripped
  /\ config.years = <<2024, 1900>>
  /\ compact.body[1].a = <<JNum(0), JNum(-124)>>
  /\ decoded.years = <<2024, 1900>>

WellFormedEntry(e) ==
  /\ IsArray(e)
  /\ \/ /\ Len(e.a) \in {3, 4}
        /\ e.a[1].t = "number" /\ e.a[2].t = "number" /\ e.a[3].t = "string"
     \/ /\ Len(e.a) \in {2, 3}
        /\ e.a[1].t = "number" /\ e.a[2].t = "string"
     \/ /\ Len(e.a) \in {2, 3}
        /\ IsArray(e.a[1]) /\ Len(e.a[1].a) >= 2 /\ e.a[2].t = "string"

Malformed(text) ==
  \/ ~text.valid
  \/ ~IsArray(At(text.body, 0))
  \/ ~IsArray(At(text.body, 1))
  \/ \E i \in 1..Len(At(text.body, 1).a) : ~WellFormedEntry(At(text.body, 1).a[i])

\* C6 as stated: a compact string that is not JSON, or that lacks the years
\* list or the periods list, or that has a period entry of the wrong arity,
\* is answered by null and never by a partial configuration.
C6_MalformedGivesNull ==
  (config = None /\ decoded # None /\ Malformed(compact)) => decoded = JNull

(***************************************************************************)
(* The resolver as a state machine: renderCalendar normalizes the periods  *)
(* of a configuration, starts each year with an empty set usedPeriods and  *)
(* asks getColorsForDate for the days of the year.                         *)
(***************************************************************************)
QueryDays == -1..4
RangeDays == 0..3

ResolverRangePeriods ==
  {[start |-> s, end |-> e, color |-> "#ff0000"] : s \in RangeDays, e \in RangeDays}

ResolverDatesPeriods ==
  {[dates |-> ds, color |-> "#00ff00"] : ds \in SeqsUpTo({0, 1, 3}, MaxDates)}

ResolverPool ==
  { [start |-> 0, end |-> 2, color |-> "#ff0000", label |-> "A"],
    [start |-> 1, end |-> 3, color |-> "#00ff00", label |-> "B"],
    [start |-> 2, end |-> 2, color |-> "#ff0000"],
    [dates |-> <<3, 1>>, color |-> "#0000ff", label |-> "C"],
    [dates |-> <<2, 2>>, color |-> "#00ff00"] }

PeriodLists ==
  {<<p>> : p \in ResolverRangePeriods \cup ResolverDatesPeriods}
  \cup SeqsUpTo(ResolverPool, MaxPeriods)

\* Instants handed to isDateInRange: UTC midnights and times within a day.
Instants == {getTime(d) + h * (MS_PER_DAY \div 24) : d \in 1..2, h \in {0, 14}}

CodecIdle == config = None /\ compact = None /\ decoded = None

InitResolver ==
  /\ highlightPeriods \in PeriodLists
  /\ timezone \in Zones
  /\ periods = <<>>
  /\ day = 0
  /\ colors = <<>>
  /\ usedPeriods = {}
  /\ inRange = None
  /\ called = "none"
  /\ CodecIdle
  /\ RestIdle

NormalizePeriods ==
  /\ called = "none"
  /\ periods' = normalizePeriods(highlightPeriods, timezone)
  /\ called' = "normalizePeriods"
  /\ UNCHANGED <<highlightPeriods, timezone, day, colors, usedPeriods, inRange>>
  /\ UNCHANGED <<codecVars, restVars>>

\* const usedPeriods = new Set() at the start of each year.
StartYear ==
  /\ called \in {"normalizePeriods", "getColorsForDate"}
  /\ usedPeriods' = {}
  /\ called' = "startYear"
  /\ UNCHANGED <<highlightPeriods, timezone, periods, day, colors, inRange>>
  /\ UNCHANGED <<codecVars, restVars>>

\* createMonthTable resolves the day of a cell in the configured timezone
\* and hands it to getColorsForDate with the set of the year.
GetColorsForDate ==
  /\ called \in {"startYear", "getColorsForDate"}
  /\ \E d \in QueryDays :
       LET result == getColorsForDate(parseDateInTimezone(d, timezone),
                                      periods, usedPeriods)
       IN  /\ day' = d
           /\ colors' = result.colors
           /\ usedPeriods' = result.usedPeriods
  /\ called' = "getColorsForDate"
  /\ UNCHANGED <<highlightPeriods, timezone, periods, inRange>>
  /\ UNCHANGED <<codecVars, restVars>>

\* isDateInRange has no caller in the rendering path; it is applied on its
\* own, in the local zone of the environment.
IsDateInRange ==
  /\ called = "none"
  /\ \E date \in Instants, startDate \in Instants, endDate \in Instants,
        localZone \in Zones :
       inRange' = [date |-> date, startDate |-> startDate, endDate |-> endDate,
                   localZone |-> localZone,
                   result |-> isDateInRange(date, startDate, endDate, localZone)]
  /\ called' = "isDateInRange"
  /\ UNCHANGED <<highlightPeriods, timezone, periods, day, colors, usedPeriods>>
  /\ UNCHANGED <<codecVars, restVars>>

NextResolver == NormalizePeriods \/ StartYear \/ GetColorsForDate \/ IsDateInRange

SpecResolver == InitResolver /\ [][NextResolver]_vars

(***************************************************************************)
(* Properties of the resolver, stated on the calendar days of the          *)
(* configuration.                                                          *)
(***************************************************************************)
MatchesDay(p, d) ==
  IF IsRangePeriod(p)
  THEN p.start <= d /\ d <= p.end
  ELSE \E k \in 1..Len(p.dates) : p.dates[k] = d

\* 1-based positions of the periods that match day d.
Matching(d) ==
  {i \in 1..Len(highlightPeriods) : MatchesDay(highlightPeriods[i], d)}

MatchingInOrder(d) ==
  SelectSeq([i \in 1..Len(highlightPeriods) |-> i], LAMBDA i : i \in Matching(d))

ColorsOfMatching(d) ==
  [k \in 1..Len(MatchingInOrder(d)) |->
     highlightPeriods[MatchingInOrder(d)[k]].color]

\* A step of getColorsForDate.
ColorsStep == called' = "getColorsForDate"

\* C7: getColorsForDate returns the colours of the periods that match the
\* day, one per matching period, in ascending period index, and the index
\* of every matching period is in usedPeriods.
C7_ColorsOfMatchingPeriods ==
  called = "getColorsForDate" =>
    /\ colors = ColorsOfMatching(day)
    /\ \A i \in Matching(day) : (i - 1) \in usedPeriods

C7_Witness ==
  /\ called = "getColorsForDate"
  /\ Len(highlightPeriods) = 2
  /\ IsRangePeriod(highlightPeriods[1])
  /\ IsRangePeriod(highlightPeriods[2])
  /\ highlightPeriods[1].color # highlightPeriods[2].color
  /\ Matching(day) = {1, 2}
  /\ colors = <<highlightPeriods[1].color, highlightPeriods[2].color>>
  /\ {0, 1} \subseteq usedPeriods

\* C8: a range period is matched by getColorsForDate exactly on the days
\* start..end, both included, and isDateInRange answers true exactly when
\* the day of the date lies between the days of start and end.
C8_RangeInclusive ==
  [][ /\ (ColorsStep /\ usedPeriods = {}) =>
           \A i \in 1..Len(highlightPeriods) :
             IsRangePeriod(highlightPeriods[i]) =>
               ((i - 1) \in usedPeriods' <=>
                  (highlightPeriods[i].start <= day'
                   /\ day' <= highlightPeriods[i].end))
      /\ called' = "isDateInRange" =>
           (inRange'.result <=>
              /\ LocalDay(inRange'.startDate, inRange'.localZone)
                   <= LocalDay(inRange'.date, inRange'.localZone)
              /\ LocalDay(inRange'.date, inRange'.localZone)
                   <= LocalDay(inRange'.endDate, inRange'.localZone))
    ]_vars

C8_Witness ==
  /\ called = "getColorsForDate"
  /\ timezone = "America/New_York"
  /\ Len(highlightPeriods) = 1
  /\ IsRangePeriod(highlightPeriods[1])
  /\ highlightPeriods[1].start < highlightPeriods[1].end
  /\ day = highlightPeriods[1].end
  /\ usedPeriods = {0}
  /\ colors = <<highlightPeriods[1].color>>

\* C9: a period with a list of dates is matched exactly on the days that
\* are in its list.
C9_DatesExact ==
  [][ (ColorsStep /\ usedPeriods = {}) =>
        \A i \in 1..Len(highlightPeriods) :
          IsDatesPeriod(highlightPeriods[i]) =>
            ((i - 1) \in usedPeriods' <=>
               \E k \in 1..Len(highlightPeriods[i].dates) :
                 highlightPeriods[i].dates[k] = day')
    ]_vars

C9_Witness ==
  /\ called = "getColorsForDate"
  /\ timezone = "Asia/Tokyo"
  /\ Len(highlightPeriods) = 1
  /\ IsDatesPeriod(highlightPeriods[1])
  /\ highlightPeriods[1].dates = <<1, 3>>
  /\ day = 3
  /\ usedPeriods = {0}

\* C10: a call adds to usedPeriods the indices of the periods that match
\* and nothing else, removes nothing and leaves the periods alone; when no
\* period matches the colour list is empty and usedPeriods is unchanged.
C10_UsedPeriodsFrame ==
  [][ ColorsStep =>
        /\ usedPeriods' = usedPeriods \cup {i - 1 : i \in Matching(day')}
        /\ periods' = periods
        /\ highlightPeriods' = highlightPeriods
        /\ Matching(day') = {} => (colors' = <<>> /\ usedPeriods' = usedPeriods)
    ]_vars

C10_Witness ==
  /\ called = "getColorsForDate"
  /\ Len(highlightPeriods) = 2
  /\ Matching(day) = {}
  /\ colors = <<>>
  /\ usedPeriods = {0, 1}

\* The periods have been normalized (and possibly queried since).
Normalized == called \in {"normalizePeriods", "startYear", "getColorsForDate"}

\* The fields of the input period are carried over unchanged.
KeepsInput(n, p) ==
  \A f \in DOMAIN p : f \in DOMAIN n /\ n[f] = p[f]

\* C11: normalizePeriods returns one normalized period per input period at
\* the same position, with order equal to the 0-based input index; no
\* period is merged, de-duplicated or dropped, and dateObjects[k] is the
\* midnight, in the configured timezone, of dates[k].
C11_NormalizePositional ==
  Normalized =>
    /\ Len(periods) = Len(highlightPeriods)
    /\ \A i \in 1..Len(highlightPeriods) :
         /\ periods[i].order = i - 1
         /\ KeepsInput(periods[i], highlightPeriods[i])
         /\ IsDatesPeriod(highlightPeriods[i]) =>
              /\ Len(periods[i].dateObjects) = Len(highlightPeriods[i].dates)
              /\ \A k \in 1..Len(highlightPeriods[i].dates) :
                   LocalDay(periods[i].dateObjects[k], timezone)
                     = highlightPeriods[i].dates[k]

C11_Witness ==
  /\ called = "normalizePeriods"
  /\ timezone = "Asia/Tokyo"
  /\ Len(highlightPeriods) = 2
  /\ highlightPeriods[1] = highlightPeriods[2]
  /\ IsDatesPeriod(highlightPeriods[1])
  /\ highlightPeriods[1].dates = <<3, 1>>
  /\ Len(periods) = 2
  /\ periods[1].order = 0
  /\ periods[2].order = 1
  /\ periods[2].dateObjects[1] > periods[2].dateObjects[2]

\* What a caller holds after "const result = getColorsForDate(...)": the
\* function ends with "return colors", an array of colour strings.
Returned == JArr([k \in 1..Len(colors) |-> JStr(colors[k])])

\* value[key] for a property name: an array of strings has no property of
\* that name, an object has the properties in its domain.
GetProperty(value, key) ==
  IF value.t = "object" /\ key \in DOMAIN value.o THEN value.o[key]
  ELSE Undefined

\* C12: getColorsForDate returns both colors and matchingPeriods, two
\* sequences of equal length in which matchingPeriods[k] is the period
\* whose colour is colors[k], periods without a label included.
C12_ReturnsColorsAndPeriods ==
  called = "getColorsForDate" =>
    LET resultColors == GetProperty(Returned, "colors")
        matchingPeriods == GetProperty(Returned, "matchingPeriods")
    IN  /\ IsArray(resultColors)
        /\ IsArray(matchingPeriods)
        /\ Len(resultColors.a) = Len(matchingPeriods.a)
        /\ Len(matchingPeriods.a) = Len(MatchingInOrder(day))
        /\ \A k \in 1..Len(matchingPeriods.a) :
             /\ matchingPeriods.a[k] = periods[MatchingInOrder(day)[k]]
             /\ resultColors.a[k] = JStr(matchingPeriods.a[k].color)

(***************************************************************************)
(* CalendarRenderer: renderCalendar normalizes the periods, then renders   *)
(* each year of the list with a new set usedPeriods and a legend.  The     *)
(* calendar is scaled down to MonthsPerYear months of DaysPerMonth days,   *)
(* with 1970 starting at day 0.                                            *)
(***************************************************************************)
\* `${year}-${monthStr}-${dayStr}` as a day number; month counts from 0 and
\* dayOfMonth from 1.
DateStr(year, month, dayOfMonth) ==
  (year - 1970) * MonthsPerYear * DaysPerMonth + month * DaysPerMonth
  + (dayOfMonth - 1)

\* The day cells of a year in the order they are created: month by month,
\* currentDay from 1 to daysInMonth.
YearCells(year) ==
  [c \in 1..(MonthsPerYear * DaysPerMonth) |->
     DateStr(year, (c - 1) \div DaysPerMonth, ((c - 1) % DaysPerMonth) + 1)]

Range(s) == {s[k] : k \in 1..Len(s)}

RECURSIVE AddedInOrder(_)
\* The members of a set of indices, smallest first: the loop of
\* getColorsForDate adds them to the Set in ascending i.
AddedInOrder(added) ==
  IF added = {} THEN <<>>
  ELSE LET least == CHOOSE i \in added : \A j \in added : i <= j
       IN  <<least>> \o AddedInOrder(added \ {least})

RECURSIVE renderCells(_, _, _, _, _)
\* The calls of getColorsForDate for the cells from position k on.  used is
\* the Set usedPeriods as a sequence, in insertion order, which is the
\* order Array.from gives.
renderCells(cells, k, ps, zone, used) ==
  IF k > Len(cells) THEN used
  ELSE LET result == getColorsForDate(parseDateInTimezone(cells[k], zone),
                                      ps, Range(used))
       IN  renderCells(cells, k + 1, ps, zone,
                       used \o AddedInOrder(result.usedPeriods \ Range(used)))

RECURSIVE usedInYear_sharedSet(_, _, _, _)
\* Variant: one set is used for all the years.
usedInYear_sharedSet(yearList, k, ps, zone) ==
  IF k = 0 THEN <<>>
  ELSE renderCells(YearCells(yearList[k]), 1, ps, zone,
                   usedInYear_sharedSet(yearList, k - 1, ps, zone))

\* const usedPeriods = new Set() and the month tables of the k-th year.
usedInYear(yearList, k, ps, zone) ==
  renderCells(YearCells(yearList[k]), 1, ps, zone, <<>>)

\* Array.from(usedPeriods).map(i => normalizedPeriods[i]).filter(p => p.label)
labeledPeriods(used, ps) ==
  SelectSeq([k \in 1..Len(used) |-> ps[used[k] + 1]],
            LAMBDA p : HasTruthy(p, "label"))

\* The legend items: a colour and a label for each period with a label.
createLegend(ps) ==
  LET shown == SelectSeq(ps, LAMBDA p : HasTruthy(p, "label"))
  IN  [k \in 1..Len(shown) |-> [color |-> shown[k].color, label |-> shown[k].label]]

renderCalendar(yearList, hps, zone) ==
  LET normalizedPeriods == normalizePeriods(hps, zone)
  IN  [k \in 1..Len(yearList) |->
         LET used == usedInYear(yearList, k, normalizedPeriods, zone)
             labeled == labeledPeriods(used, normalizedPeriods)
         IN  [year |-> yearList[k],
              usedPeriods |-> used,
              labeledPeriods |-> labeled,
              legend |-> createLegend(labeled)]]

RenderYearPool == {1969, 1970, 1971}

LastDay(year) == DateStr(year, MonthsPerYear - 1, DaysPerMonth)

RenderPool ==
  { [start |-> DateStr(1970, 0, 1), end |-> DateStr(1970, 0, 2),
     color |-> "#ff0000", label |-> "A"],
    [dates |-> <<DateStr(1971, 0, 1)>>, color |-> "#00ff00", label |-> "B"],
    [start |-> LastDay(1970), end |-> DateStr(1971, 0, 1),
     color |-> "#0000ff", label |-> "C"],
    [dates |-> <<DateStr(1971, 0, 2), DateStr(1970, 0, 1)>>,
     color |-> "#ffd700", label |-> "D"],
    [start |-> DateStr(1970, 0, 2), end |-> DateStr(1970, 1, 1),
     color |-> "#ff0000"],
    [dates |-> <<DateStr(1970, 1, 1)>>, color |-> "#00ff00", label |-> ""],
    [start |-> LastDay(1970), end |-> LastDay(1970),
     color |-> "#00ffff", label |-> "E"] }

InitRender ==
  /\ highlightPeriods \in SeqsUpTo(RenderPool, MaxPeriods)
  /\ calendarYears \in SeqsUpTo(RenderYearPool, MaxYears)
  /\ timezone \in Zones
  /\ periods = <<>>
  /\ day = 0
  /\ colors = <<>>
  /\ usedPeriods = {}
  /\ inRange = None
  /\ called = "none"
  /\ rendered = <<>>
  /\ CodecIdle
  /\ GradientIdle
  /\ ConfigManagerIdle
  /\ PreprocessorIdle
  /\ AppIdle
  /\ UIIdle

RenderCalendar ==
  /\ called = "none"
  /\ periods' = normalizePeriods(highlightPeriods, timezone)
  /\ rendered' = renderCalendar(calendarYears, highlightPeriods, timezone)
  /\ usedPeriods' = IF calendarYears = <<>> THEN {}
                    ELSE Range(rendered'[Len(calendarYears)].usedPeriods)
  /\ called' = "renderCalendar"
  /\ UNCHANGED <<highlightPeriods, timezone, calendarYears, day, colors, inRange>>
  /\ UNCHANGED <<codecVars, gradientVars, configManagerVars, preprocessorVars,
                 appVars,
                 uiVars>>

NextRender == RenderCalendar

SpecRender == InitRender /\ [][NextRender]_vars

\* 1-based positions of the periods with a label that match a day of the year.
LabelledMatchingYear(year) ==
  {i \in 1..Len(highlightPeriods) :
     /\ HasTruthy(highlightPeriods[i], "label")
     /\ \E d \in Range(YearCells(year)) : MatchesDay(highlightPeriods[i], d)}

\* C13: the legend of each rendered year lists exactly the labelled
\* periods that match at least one day of that year, each once, whatever
\* the position of the year in the list.
C13_LegendPerYear ==
  called = "renderCalendar" =>
    /\ Len(rendered) = Len(calendarYears)
    /\ \A k \in 1..Len(calendarYears) :
         LET labeled == rendered[k].labeledPeriods
         IN  /\ rendered[k].year = calendarYears[k]
             /\ {labeled[j].order + 1 : j \in 1..Len(labeled)}
                  = LabelledMatchingYear(calendarYears[k])
             /\ Len(labeled) = Cardinality(LabelledMatchingYear(calendarYears[k]))
             /\ Len(rendered[k].legend) = Len(labeled)
             /\ \A j \in 1..Len(labeled) :
                  /\ labeled[j] = periods[labeled[j].order + 1]
                  /\ rendered[k].legend[j].label
                       = highlightPeriods[labeled[j].order + 1].label
                  /\ rendered[k].legend[j].color
                       = highlightPeriods[labeled[j].order + 1].color

C13_Witness ==
  /\ called = "renderCalendar"
  /\ Len(calendarYears) = 2
  /\ calendarYears[1] > calendarYears[2]
  /\ Len(highlightPeriods) = 2
  /\ LabelledMatchingYear(calendarYears[1]) = {2}
  /\ LabelledMatchingYear(calendarYears[2]) = {1}
  /\ Len(rendered[1].legend) = 1
  /\ rendered[1].legend[1].label = highlightPeriods[2].label
  /\ Len(rendered[2].legend) = 1
  /\ rendered[2].legend[1].label = highlightPeriods[1].label

\* C14: the legend entries of a rendered year are in ascending original
\* period index, whichever period is matched first by a day of the year.
C14_LegendAscending ==
  called = "renderCalendar" =>
    \A k \in 1..Len(rendered) :
      LET labeled == rendered[k].labeledPeriods
      IN  \A a \in 1..Len(labeled), b \in 1..Len(labeled) :
            a < b => labeled[a].order < labeled[b].order

(***************************************************************************)
(* GradientUtils: generateGradient.  A percentage is a fraction num / den, *)
(* so that 100 / colors.length and its multiples are exact.                *)
(***************************************************************************)
Fraction(num, den) == [num |-> num, den |-> den]

\* a * index, for a fraction a and an integer index
Times(a, index) == Fraction(a.num * index, a.den)

SameFraction(a, b) == a.num * b.den = b.num * a.den

Minus(a, b) == Fraction(a.num * b.den - b.num * a.den, a.den * b.den)

\* `${color} ${start}%, ${color} ${end}%`
ColorStops(color, start, end) ==
  <<[color |-> color, at |-> start], [color |-> color, at |-> end]>>

RECURSIVE Join(_)
\* colorStops.join(', '): the stops of all bands, one after the other.
Join(parts) == IF parts = <<>> THEN <<>> ELSE Head(parts) \o Join(Tail(parts))

LinearGradient(colorList) ==
  LET percentage == Fraction(100, Len(colorList))
      colorStops == [k \in 1..Len(colorList) |->
                       ColorStops(colorList[k], Times(percentage, k - 1),
                                  Times(percentage, k))]
  IN  [t |-> "linear-gradient", direction |-> "to bottom",
       stops |-> Join(colorStops)]

\* Variant: no special case for an empty list or a single colour, as in
\* the generateGradient of the legacy script.
generateGradient_legacy(colorList) == LinearGradient(colorList)

generateGradient(colorList) ==
  IF Len(colorList) = 0 THEN JStr("")
  ELSE IF Len(colorList) = 1 THEN JStr(colorList[1])
  ELSE LinearGradient(colorList)

ColorPool == {"#ff0000", "#00ff00", "#0000ff"}

InitGradient ==
  /\ colors \in SeqsUpTo(ColorPool, MaxColors)
  /\ background = None
  /\ highlightPeriods = <<>>
  /\ timezone = "UTC"
  /\ periods = <<>>
  /\ day = 0
  /\ usedPeriods = {}
  /\ inRange = None
  /\ called = "none"
  /\ CodecIdle
  /\ RenderIdle
  /\ ConfigManagerIdle
  /\ PreprocessorIdle
  /\ AppIdle
  /\ UIIdle

GenerateGradient ==
  /\ called = "none"
  /\ background' = generateGradient(colors)
  /\ called' = "generateGradient"
  /\ UNCHANGED <<highlightPeriods, timezone, periods, day, colors, usedPeriods,
                 inRange>>
  /\ UNCHANGED <<codecVars, renderVars, configManagerVars, preprocessorVars,
                 appVars,
                 uiVars>>

NextGradient == GenerateGradient

SpecGradient == InitGradient /\ [][NextGradient]_vars

\* The two stops of band k (0-based) of a gradient.
BandStart(gradient, k) == gradient.stops[2 * k + 1]
BandEnd(gradient, k) == gradient.stops[2 * k + 2]

TypeofObject(v) == v.t \in {"object", "array"}

Invalid(message, at) == [valid |-> FALSE, error |-> [message |-> message, at |-> at]]

\* typeof year !== 'number' || year < 1900 || year > 2100: both comparisons
\* are false for NaN.
YearRejected(year) ==
  \/ ~TypeofNumber(year)
  \/ year.t = "number" /\ (year.n < 1900 \/ year.n > 2100)

\* The checks made on one period, in their order; "" when all pass.
PeriodError(period) ==
  IF ~Truthy(period) \/ ~TypeofObject(period)
  THEN "must be an object"
  ELSE IF \/ ~Truthy(GetProperty(period, "color"))
          \/ GetProperty(period, "color").t # "string"
  THEN "color is required and must be a string"
  ELSE LET hasRange == /\ Truthy(GetProperty(period, "start"))
                       /\ Truthy(GetProperty(period, "end"))
           hasDates == /\ Truthy(GetProperty(period, "dates"))
                       /\ IsArray(GetProperty(period, "dates"))
       IN  IF ~hasRange /\ ~hasDates
           THEN "must have either (start and end) or dates"
           ELSE IF hasRange /\ hasDates
           THEN "cannot have both date range and dates array"
           ELSE ""

validateConfig(value) ==
  IF ~Truthy(value) \/ ~TypeofObject(value)
  THEN Invalid("Configuration must be an object", JNull)
  ELSE LET yearsValue == GetProperty(value, "years")
           periodsValue == GetProperty(value, "highlightPeriods")
       IN  IF ~IsArray(yearsValue)
           THEN Invalid("years must be an array", JNull)
           ELSE IF ~IsArray(periodsValue)
           THEN Invalid("highlightPeriods must be an array", JNull)
           ELSE IF \E k \in 1..Len(yearsValue.a) : YearRejected(yearsValue.a[k])
           THEN LET k == CHOOSE k \in 1..Len(yearsValue.a) :
                           /\ YearRejected(yearsValue.a[k])
                           /\ \A j \in 1..(k - 1) : ~YearRejected(yearsValue.a[j])
                IN  Invalid("Invalid year", yearsValue.a[k])
           ELSE IF \E i \in 1..Len(periodsValue.a) :
                     PeriodError(periodsValue.a[i]) # ""
           THEN LET i == CHOOSE i \in 1..Len(periodsValue.a) :
                           /\ PeriodError(periodsValue.a[i]) # ""
                           /\ \A j \in 1..(i - 1) :
                                PeriodError(periodsValue.a[j]) = ""
                IN  Invalid(PeriodError(periodsValue.a[i]), JNum(i - 1))
           ELSE [valid |-> TRUE]

\* load(preprocessYAML(yamlString)), null when it throws
parseYAML(text) == IF text.loads = Thrown THEN JNull ELSE text.loads

\* Variant: the parsed value is returned without validation.
parseAndValidateYAML_unvalidated(text) ==
  LET parsed == parseYAML(text)
  IN  IF ~Truthy(parsed)
      THEN Invalid("Failed to parse YAML", JNull)
      ELSE [valid |-> TRUE, config |-> parsed]

parseAndValidateYAML(text) ==
  LET parsed == parseYAML(text)
  IN  IF ~Truthy(parsed)
      THEN Invalid("Failed to parse YAML", JNull)
      ELSE IF ~validateConfig(parsed).valid
      THEN validateConfig(parsed)
      ELSE [valid |-> TRUE, config |-> parsed]

(***************************************************************************)
(* Inputs of the ConfigManager.                                            *)
(***************************************************************************)
YearValues == {JNum(1899), JNum(1900), JNum(2024), JNum(2100), JNum(2101),
               JStr("2024"), NaN, JNull}

GoodYears == JArr(<<JNum(2024)>>)

GoodPeriod ==
  JObj([start |-> JStr("2024-01-01"), end |-> JStr("2024-01-31"),
        color |-> JStr("#ff0000")])

GoodPeriods == JArr(<<GoodPeriod>>)

\* A period object from its shape properties and its colour property.
PeriodObject(shape, colour) == JObj(shape @@ colour)

ShapePool ==
  { <<>>,
    [start |-> JStr("2024-01-01")],
    [end |-> JStr("2024-01-31")],
    [start |-> JStr("2024-01-01"), end |-> JStr("2024-01-31")],
    [start |-> JStr(""), end |-> JStr("")],
    [start |-> JNum(20240101), end |-> JNum(20240131)],
    [dates |-> JArr(<<JStr("2024-01-13")>>)],
    [dates |-> JArr(<<>>)],
    [dates |-> JStr("2024-01-13")],
    [start |-> JStr("2024-01-01"), dates |-> JArr(<<JStr("2024-01-13")>>)],
    [start |-> JStr("2024-01-01"), end |-> JStr("2024-01-31"),
     dates |-> JArr(<<JStr("2024-01-13")>>)],
    [start |-> JStr("2024-01-01"), end |-> JStr("2024-01-31"),
     dates |-> JStr("2024-01-13")] }

ColourPool ==
  { <<>>, [color |-> JStr("")], [color |-> JNum(5)], [color |-> JNull],
    [color |-> JStr("#ff0000"), label |-> JStr("Trip")] }

PeriodValues ==
  {PeriodObject(shape, [color |-> JStr("#ff0000")]) : shape \in ShapePool}
  \cup {PeriodObject([dates |-> JArr(<<JStr("2024-01-13")>>)], colour) :
          colour \in ColourPool}
  \cup {JNull, JStr("period"), JArr(<<>>)}

ConfigValues ==
  {JNull, Undefined, NaN, JNum(0), JNum(2024), JStr(""), JStr("years"),
   JArr(<<>>), JObj(<<>>)}
  \cup {JObj([highlightPeriods |-> GoodPeriods])}
  \cup {JObj([years |-> GoodYears])}
  \cup {JObj([years |-> y, highlightPeriods |-> GoodPeriods]) :
          y \in {JStr("2024"), JNum(2024), JObj(<<>>)}}
  \cup {JObj([years |-> GoodYears, highlightPeriods |-> h]) :
          h \in {JStr("none"), JNull, GoodPeriod}}
  \cup {JObj([years |-> JArr(ys), highlightPeriods |-> GoodPeriods]) :
          ys \in SeqsUpTo(YearValues, MaxYears)}
  \cup {JObj([years |-> JArr(<<JNum(1800)>>), highlightPeriods |-> JArr(<<JNull>>)])}
  \cup {JObj([years |-> GoodYears, highlightPeriods |-> JArr(ps)]) :
          ps \in SeqsUpTo(PeriodValues, MaxPeriods)}

YAMLText(loads) == [t |-> "yaml", loads |-> loads]

YAMLTexts == {YAMLText(v) : v \in ConfigValues \cup {Thrown}}

InitConfigManager ==
  /\ \/ cfg \in ConfigValues /\ yamlString = None
     \/ cfg = None /\ yamlString \in YAMLTexts
  /\ validation = None
  /\ CodecIdle
  /\ ResolverIdle
  /\ RenderIdle
  /\ GradientIdle
  /\ PreprocessorIdle
  /\ AppIdle
  /\ UIIdle

ValidateConfig ==
  /\ cfg # None
  /\ validation = None
  /\ validation' = validateConfig(cfg)
  /\ UNCHANGED <<cfg, yamlString>>
  /\ UNCHANGED <<codecVars, resolverVars, renderVars, gradientVars,
                 preprocessorVars, appVars,
                 uiVars>>

ParseAndValidateYAML ==
  /\ yamlString # None
  /\ validation = None
  /\ validation' = parseAndValidateYAML(yamlString)
  /\ UNCHANGED <<cfg, yamlString>>
  /\ UNCHANGED <<codecVars, resolverVars, renderVars, gradientVars,
                 preprocessorVars, appVars,
                 uiVars>>

NextConfigManager == ValidateConfig \/ ParseAndValidateYAML

SpecConfigManager == InitConfigManager /\ [][NextConfigManager]_vars

(***************************************************************************)
(* Properties of the ConfigManager.                                        *)
(***************************************************************************)
IsNonEmptyString(v) == v.t = "string" /\ v.s # ""

YearInRange(v) == v.t = "number" /\ 1900 <= v.n /\ v.n <= 2100

HasRangeShape(p) ==
  Truthy(GetProperty(p, "start")) /\ Truthy(GetProperty(p, "end"))

HasDatesShape(p) == IsArray(GetProperty(p, "dates"))

WellFormedPeriod(p) ==
  /\ TypeofObject(p)
  /\ IsNonEmptyString(GetProperty(p, "color"))
  /\ HasRangeShape(p) # HasDatesShape(p)

YearsWellFormed(c) ==
  /\ IsArray(GetProperty(c, "years"))
  /\ \A k \in 1..Len(GetProperty(c, "years").a) :
       YearInRange(GetProperty(c, "years").a[k])

PeriodsWellFormed(c) ==
  /\ IsArray(GetProperty(c, "highlightPeriods"))
  /\ \A i \in 1..Len(GetProperty(c, "highlightPeriods").a) :
       WellFormedPeriod(GetProperty(c, "highlightPeriods").a[i])

WellFormedConfig(c) ==
  TypeofObject(c) /\ YearsWellFormed(c) /\ PeriodsWellFormed(c)

\* The message of the first check that a value fails: the value itself,
\* the two lists, the years from left to right, the periods from left to
\* right.
FirstFailedCheck(c) ==
  IF ~TypeofObject(c) THEN "Configuration must be an object"
  ELSE IF ~IsArray(GetProperty(c, "years")) THEN "years must be an array"
  ELSE IF ~IsArray(GetProperty(c, "highlightPeriods"))
  THEN "highlightPeriods must be an array"
  ELSE IF ~YearsWellFormed(c) THEN "Invalid year"
  ELSE LET ps == GetProperty(c, "highlightPeriods").a
           i == CHOOSE i \in 1..Len(ps) :
                  /\ ~WellFormedPeriod(ps[i])
                  /\ \A j \in 1..(i - 1) : WellFormedPeriod(ps[j])
       IN  IF ~TypeofObject(ps[i]) THEN "must be an object"
           ELSE IF ~IsNonEmptyString(GetProperty(ps[i], "color"))
           THEN "color is required and must be a string"
           ELSE IF HasRangeShape(ps[i])
           THEN "cannot have both date range and dates array"
           ELSE "must have either (start and end) or dates"

\* C16: validateConfig reports valid exactly for an object whose years is
\* a list of numbers within 1900..2100 and whose highlightPeriods is a list
\* of objects, each with a non-empty string colour and exactly one of the
\* shapes (start and end) or a dates list; any other value is reported
\* invalid with the message of the first failed check.
C16_ValidExactlyWellFormed ==
  (cfg # None /\ validation # None) =>
    /\ validation.valid <=> WellFormedConfig(cfg)
    /\ ~validation.valid =>
         /\ "error" \in DOMAIN validation
         /\ validation.error.message = FirstFailedCheck(cfg)

\* C17: parseAndValidateYAML returns valid = true with the parsed config
\* exactly when the YAML parsed to a config and validateConfig accepts it;
\* otherwise it returns valid = false with an error and no config.
C17_ParseAndValidate ==
  (yamlString # None /\ validation # None) =>
    LET parsedToConfig == yamlString.loads # Thrown /\ Truthy(yamlString.loads)
    IN  /\ validation.valid <=>
             (parsedToConfig /\ validateConfig(yamlString.loads).valid)
        /\ validation.valid =>
             /\ "config" \in DOMAIN validation
             /\ validation.config = yamlString.loads
             /\ "error" \notin DOMAIN validation
        /\ ~validation.valid =>
             /\ "error" \in DOMAIN validation
             /\ "config" \notin DOMAIN validation

C17_Witness ==
  /\ yamlString # None
  /\ validation # None
  /\ validation.valid
  /\ validation.config = yamlString.loads
  /\ Len(GetProperty(yamlString.loads, "highlightPeriods").a) = 2
  /\ HasDatesShape(GetProperty(yamlString.loads, "highlightPeriods").a[1])
  /\ HasRangeShape(GetProperty(yamlString.loads, "highlightPeriods").a[2])

(***************************************************************************)
(* YAMLPreprocessor: preprocessYAML.  A string is the sequence of its      *)
(* characters; the only whitespace in the texts of the model is the space  *)
(* and the line break.                                                     *)
(***************************************************************************)
Digits == {"0", "1", "2", "3", "4", "5", "6", "7", "8", "9"}
HexDigits == Digits \cup {"a", "b", "c", "d", "e", "f", "A", "B", "C", "D", "E", "F"}

RECURSIVE trimStart(_)
trimStart(str) ==
  IF str # <<>> /\ Head(str) = " " THEN trimStart(Tail(str)) ELSE str

RECURSIVE trimEnd(_)
trimEnd(str) ==
  IF str # <<>> /\ str[Len(str)] = " "
  THEN trimEnd(SubSeq(str, 1, Len(str) - 1))
  ELSE str

trim(str) == trimEnd(trimStart(str))

startsWith(str, prefix) ==
  Len(str) >= Len(prefix) /\ SubSeq(str, 1, Len(prefix)) = prefix

endsWith(str, suffix) ==
  /\ Len(str) >= Len(suffix)
  /\ SubSeq(str, Len(str) - Len(suffix) + 1, Len(str)) = suffix

\* The 0-based position of the first occurrence of a character, or -1.
indexOf(str, char) ==
  IF \E k \in 1..Len(str) : str[k] = char
  THEN (CHOOSE k \in 1..Len(str) :
          str[k] = char /\ \A j \in 1..(k - 1) : str[j] # char) - 1
  ELSE -1

\* str.substring(from, to) and str.substring(from), 0-based
substring(str, from, to) == SubSeq(str, from + 1, to)
substringFrom(str, from) == SubSeq(str, from + 1, Len(str))

RECURSIVE split(_)
\* yaml.split('\n')
split(str) ==
  IF indexOf(str, "\n") = -1 THEN <<str>>
  ELSE <<substring(str, 0, indexOf(str, "\n"))>>
       \o split(substringFrom(str, indexOf(str, "\n") + 1))

RECURSIVE join(_)
\* processedLines.join('\n')
join(lineList) ==
  IF lineList = <<>> THEN <<>>
  ELSE IF Len(lineList) = 1 THEN lineList[1]
  ELSE lineList[1] \o <<"\n">> \o join(Tail(lineList))

\* Variant: only colours of six hex digits are recognised.
isHexColor_sixDigits(value) ==
  LET v == trim(value)
  IN  /\ Len(v) = 7
      /\ v[1] = "#"
      /\ \A k \in 2..Len(v) : v[k] \in HexDigits

\* /^#[0-9a-fA-F]{3,8}$/.test(value.trim())
isHexColor(value) ==
  LET v == trim(value)
  IN  /\ Len(v) >= 4
      /\ Len(v) <= 9
      /\ v[1] = "#"
      /\ \A k \in 2..Len(v) : v[k] \in HexDigits

\* /^\d{4}-\d{2}-\d{2}$/.test(value.trim())
isDateString(value) ==
  LET v == trim(value)
  IN  /\ Len(v) = 10
      /\ \A k \in {1, 2, 3, 4, 6, 7, 9, 10} : v[k] \in Digits
      /\ v[5] = "-"
      /\ v[8] = "-"

isQuoted(value) ==
  LET trimmed == trim(value)
  IN  \/ startsWith(trimmed, <<"\"">>) /\ endsWith(trimmed, <<"\"">>)
      \/ startsWith(trimmed, <<"'">>) /\ endsWith(trimmed, <<"'">>)

InQuotes(value) == <<"\"">> \o value \o <<"\"">>

\* The branch for a line whose first non-blank character is a dash.
ArrayItemLine(line) ==
  LET dashIndex == indexOf(line, "-")
      afterDash == trim(substringFrom(line, dashIndex + 1))
      colonInArrayItem == indexOf(afterDash, ":")
      beforeDash == substring(line, 0, dashIndex + 1)
  IN  IF colonInArrayItem = -1
      THEN IF /\ afterDash # <<>>
              /\ ~isQuoted(afterDash)
              /\ (isHexColor(afterDash) \/ isDateString(afterDash))
           THEN beforeDash \o <<" ">> \o InQuotes(afterDash)
           ELSE line
      ELSE LET beforeColon == substring(afterDash, 0, colonInArrayItem)
               afterColon == trim(substringFrom(afterDash, colonInArrayItem + 1))
           IN  IF /\ afterColon # <<>>
                  /\ ~isQuoted(afterColon)
                  /\ (isHexColor(afterColon) \/ isDateString(afterColon))
               THEN beforeDash \o <<" ">> \o beforeColon \o <<":", " ">>
                    \o InQuotes(afterColon)
               ELSE line

\* The branch for the other lines: a key and a value around the first colon.
KeyValueLine(line) ==
  LET colonIndex == indexOf(line, ":")
  IN  IF colonIndex = -1 THEN line
      ELSE LET beforeColon == substring(line, 0, colonIndex)
               afterColon == substringFrom(line, colonIndex + 1)
               value == trim(afterColon)
               indent == substring(beforeColon, 0,
                                   Len(beforeColon) - Len(trimStart(beforeColon)))
               key == trim(beforeColon)
           IN  IF trim(afterColon) = <<>> THEN line
               ELSE IF isQuoted(value) THEN line
               ELSE IF isHexColor(value) \/ isDateString(value)
               THEN indent \o key \o <<":", " ">> \o InQuotes(value)
               ELSE line

\* The body of the loop over the lines.
ProcessLine(line) ==
  IF trim(line) = <<>> \/ startsWith(trim(line), <<"#">>) THEN line
  ELSE IF startsWith(trim(line), <<"-">>) THEN ArrayItemLine(line)
  ELSE KeyValueLine(line)

preprocessYAML(text) ==
  join([i \in 1..Len(split(text)) |-> ProcessLine(split(text)[i])])

(***************************************************************************)
(* Inputs of the preprocessor.                                             *)
(***************************************************************************)
ValueHex3 == <<"#", "f", "f", "f">>
ValueHex6 == <<"#", "f", "f", "d", "7", "0", "0">>
ValueDate == <<"2", "0", "2", "5", "-", "1", "2", "-", "0", "1">>
ValuePlain == <<"T", "r", "i", "p">>

\* Hex colours of 3, 6 and 8 digits, in upper case, too short, too long and
\* with a letter that is no hex digit; dates, with a digit too few and one
\* too many; quoted and half-quoted values; other scalars.
Values ==
  { ValueHex3, ValueHex6,
    <<"#", "f", "f", "6", "b", "6", "b", "f", "f">>,
    <<"#", "F", "F", "D">>,
    <<"#", "f", "f">>,
    <<"#", "f", "f", "6", "b", "6", "b", "f", "f", "0">>,
    <<"#", "g", "g", "g">>,
    ValueDate,
    <<"2", "0", "2", "5", "-", "1", "-", "0", "1">>,
    <<"2", "0", "2", "5", "-", "1", "2", "-", "0", "1", "1">>,
    <<"\"", "#", "f", "f", "f", "\"">>,
    <<"'", "2", "0", "2", "5", "-", "1", "2", "-", "0", "1", "'">>,
    <<"\"", "#", "f", "f", "f">>,
    ValuePlain,
    <<"2", "0", "2", "5">>,
    <<"1", "2", ":", "3", "0">> }

Indents == {<<>>, <<" ", " ">>}

\* What stands before the value: a key, a dash, or a dash and a key, with
\* and without the space that usually follows.
Prefixes ==
  { <<>>,
    <<"k", ":", " ">>, <<"k", ":">>, <<"k", " ", ":", " ", " ">>,
    <<"-", " ">>, <<"-">>, <<"-", " ", " ">>,
    <<"-", " ", "k", ":", " ">>, <<"-", "k", ":", " ">>, <<"-", " ", "k", ":">> }

Trailers == {<<>>, <<" ">>}

ValueLines ==
  {indent \o prefix \o value \o trailer :
     indent \in Indents, prefix \in Prefixes, value \in Values,
     trailer \in Trailers}

OtherLines ==
  { <<>>, <<" ", " ">>,
    <<"#", " ", "c">>, <<" ", " ", "#", "f", "f", "f">>,
    <<"k", ":">>, <<" ", " ", "k", ":", " ">>,
    <<"-">>, <<"-", "-", "-">>,
    <<"-", " ", "-", " ">> \o ValueDate,
    <<"k", ":", " ">> \o ValueHex3 \o <<" ", "#", " ", "c">> }

LinePool ==
  { <<"k", ":", " ">> \o ValueHex6,
    <<" ", " ", "-", " ">> \o ValueDate,
    <<"k", ":", " ">> \o ValuePlain,
    <<>>,
    <<"#", " ", "c">> }

Texts ==
  ValueLines \cup OtherLines
  \cup {join(lineList) : lineList \in SeqsUpTo(LinePool, MaxLines) \ {<<>>}}

InitPreprocessor ==
  /\ yaml \in Texts
  /\ processed = <<>>
  /\ CodecIdle
  /\ ResolverIdle
  /\ RenderIdle
  /\ GradientIdle
  /\ ConfigManagerIdle
  /\ AppIdle
  /\ UIIdle

PreprocessYAML ==
  /\ called = "none"
  /\ processed' = preprocessYAML(yaml)
  /\ called' = "preprocessYAML"
  /\ UNCHANGED <<highlightPeriods, timezone, periods, day, colors, usedPeriods,
                 inRange, yaml>>
  /\ UNCHANGED <<codecVars, renderVars, gradientVars, configManagerVars,
                 appVars,
                 uiVars>>

NextPreprocessor == PreprocessYAML

SpecPreprocessor == InitPreprocessor /\ [][NextPreprocessor]_vars

(***************************************************************************)
(* Properties of the preprocessor, stated on the lines of the text.        *)
(***************************************************************************)
LeadingSpaces(line) == Len(line) - Len(trimStart(line))

StripSpaces(line) == SelectSeq(line, LAMBDA c : c # " ")

AfterFirstColon(str) == trim(substringFrom(str, indexOf(str, ":") + 1))

\* The value of a line: what follows the dash of a list item (and the key
\* of the item, if it has one) or the key of a mapping line; empty for a
\* blank line, a comment and a line that is neither.  With dashNeedsSpace a
\* dash starts a list item only when it ends the line or a space follows.
ValueOf(line, dashNeedsSpace) ==
  LET rest == trim(line)
  IN  IF rest = <<>> \/ rest[1] = "#" THEN <<>>
      ELSE IF /\ rest[1] = "-"
              /\ (~dashNeedsSpace \/ Len(rest) = 1 \/ rest[2] = " ")
      THEN LET item == trim(Tail(rest))
           IN  IF indexOf(item, ":") # -1 THEN AfterFirstColon(item) ELSE item
      ELSE IF indexOf(rest, ":") # -1 THEN AfterFirstColon(rest)
      ELSE <<>>

IsHexColourValue(v) ==
  /\ Len(v) \in 4..9
  /\ v[1] = "#"
  /\ \A k \in 2..Len(v) : v[k] \in HexDigits

IsDateValue(v) ==
  /\ Len(v) = 10
  /\ v[5] = "-"
  /\ v[8] = "-"
  /\ \A k \in (1..10) \ {5, 8} : v[k] \in Digits

AlreadyQuoted(v) ==
  /\ v # <<>>
  /\ v[1] \in {"\"", "'"}
  /\ v[Len(v)] = v[1]

ToBeQuoted(v) == ~AlreadyQuoted(v) /\ (IsHexColourValue(v) \/ IsDateValue(v))

\* The output line is the input line with double quotes around its value,
\* at the same indentation; spaces elsewhere are not compared.
QuotedLine(line, out, value) ==
  LET stripped == StripSpaces(line)
  IN  /\ LeadingSpaces(out) = LeadingSpaces(line)
      /\ StripSpaces(out)
           = SubSeq(stripped, 1, Len(stripped) - Len(value)) \o InQuotes(value)

LinesAsClaimed(dashNeedsSpace) ==
  LET ins == split(yaml)
      outs == split(processed)
  IN  /\ Len(outs) = Len(ins)
      /\ \A i \in 1..Len(ins) :
           IF ToBeQuoted(ValueOf(ins[i], dashNeedsSpace))
           THEN QuotedLine(ins[i], outs[i], ValueOf(ins[i], dashNeedsSpace))
           ELSE outs[i] = ins[i]

\* C18 as stated: a value is put in double quotes exactly when it stands
\* after 'key:', after '- ' or after '- key:', is not already quoted and
\* is a hex colour or a YYYY-MM-DD date; every other line is returned
\* unchanged and the number and order of the lines is kept.
C18_QuotesAfterDashSpace ==
  called = "preprocessYAML" => LinesAsClaimed(TRUE)

\* C18 as amended: the same, where a dash at the start of a line counts as
\* the dash of a list item whether or not a space follows it.
C18_QuotesAfterDash ==
  called = "preprocessYAML" => LinesAsClaimed(FALSE)

C18_Witness ==
  /\ called = "preprocessYAML"
  /\ Len(split(yaml)) = 3
  /\ split(yaml)[1] = <<" ", " ", "-", " ">> \o ValueDate
  /\ split(yaml)[2] = <<>>
  /\ split(yaml)[3] = <<"k", ":", " ">> \o ValueHex6
  /\ split(processed)[1] = <<" ", " ", "-", " ">> \o InQuotes(ValueDate)
  /\ split(processed)[2] = <<>>
  /\ split(processed)[3] = <<"k", ":", " ">> \o InQuotes(ValueHex6)

(***************************************************************************)
(* CalendarApp and URLManager: init reads the config parameter of the URL, *)
(* fills the editor and saves; handleSave parses and validates the editor  *)
(* text, renders the calendar and rewrites the URL.  An encoded parameter  *)
(* is represented by what LZString inflates it to, the editor text by what *)
(* js-yaml loads from it.                                                  *)
(***************************************************************************)
\* window.location.search, as the value params.get('config') gives for it:
\* null when there is no parameter, '' for an empty one.
Search(configParam) == [t |-> "search", configParam |-> configParam]

\* LZString.compressToEncodedURIComponent(text); inflates is null when the
\* parameter is not the encoding of any text.
Encoded(inflates) == [t |-> "string", s |-> "encoded", inflates |-> inflates]

\* 'YYYY-MM-DD' for a day number, as a JavaScript string.
DateString(dateStr) == [t |-> "string", s |-> "YYYY-MM-DD", day |-> dateStr]

\* A period as the JavaScript object js-yaml loads from its dump.
PeriodValue(p) ==
  JObj([k \in DOMAIN p |->
          CASE k \in {"start", "end"} -> DateString(p[k])
            [] k = "dates" ->
                 JArr([i \in 1..Len(p.dates) |-> DateString(p.dates[i])])
            [] OTHER -> JStr(p[k])])

\* A configuration as the JavaScript object js-yaml loads from its dump.
AsValue(c) ==
  JObj([k \in DOMAIN c |->
          CASE k = "years" -> JArr([i \in 1..Len(c.years) |-> JNum(c.years[i])])
            [] k = "highlightPeriods" ->
                 JArr([i \in 1..Len(c.highlightPeriods) |->
                         PeriodValue(c.highlightPeriods[i])])
            [] OTHER -> JStr(c[k])])

\* The fields of a validated period: result.config as HighlightPeriod.
PeriodRecord(v) ==
  [k \in DOMAIN v.o |->
     CASE k \in {"start", "end"} -> v.o[k].day
       [] k = "dates" -> [i \in 1..Len(v.o.dates.a) |-> v.o.dates.a[i].day]
       [] OTHER -> v.o[k].s]

\* The fields of a validated configuration: result.config as CalendarConfig.
AsConfig(v) ==
  [k \in DOMAIN v.o |->
     CASE k = "years" -> [i \in 1..Len(v.o.years.a) |-> v.o.years.a[i].n]
       [] k = "highlightPeriods" ->
            [i \in 1..Len(v.o.highlightPeriods.a) |->
               PeriodRecord(v.o.highlightPeriods.a[i])]
       [] OTHER -> v.o[k].s]

\* December and 13 January of the current year, on the scaled calendar: the
\* last month, and the last day of the first month.
getDefaultConfig(currentYear) ==
  [years |-> <<currentYear>>,
   highlightPeriods |->
     << [start |-> DateStr(currentYear, MonthsPerYear - 1, 1),
         end |-> LastDay(currentYear),
         color |-> "#ffd700", label |-> "Festival Break"],
        [dates |-> <<DateStr(currentYear, 0, DaysPerMonth)>>,
         color |-> "#ff6b6b", label |-> "Important Day"] >>]

\* dump(config): the text js-yaml loads the configuration from.
configToYAML(c) == YAMLText(AsValue(c))

\* luxon.DateTime.local().zoneName of the browser
zoneName == "Asia/Tokyo"

getCurrentTimezone(timezoneValue) ==
  IF timezoneValue = "auto" THEN zoneName ELSE timezoneValue

\* `[${compressedJSON}]`: null is written as the text null.
TemplateText(compressedJSON) ==
  IF compressedJSON = JNull THEN CompactText(<<JNull>>) ELSE compressedJSON

\* compressYAML of opt.ts, the module URLManager imports: the years and the
\* periods are compressed as in the script, no third element is written.
optCompressYAML(parsedData) ==
  LET years == IF "years" \in DOMAIN parsedData
               THEN compressYears(parsedData.years) ELSE <<>>
      hps == IF "highlightPeriods" \in DOMAIN parsedData
             THEN compressPeriods(parsedData.highlightPeriods) ELSE <<>>
      compressedData == <<JArr(years), JArr(hps)>>
  IN  CompactText(JSONValue(JArr(compressedData)).a)

\* decompressJSON of opt.ts: elements 0 and 1 are decoded as in the script,
\* element 2 is never read.
optDecompressJSON(text, dumpStrict) ==
  IF ~text.valid THEN JNull
  ELSE decompressJSON(
         CompactText(SubSeq(text.body, 1,
                            IF Len(text.body) < 2 THEN Len(text.body) ELSE 2)),
         dumpStrict)

\* decompressJSON gives the loaded YAML it dumps, never an empty text; null
\* when the parameter is absent or empty and when decompressJSON gives null.
getConfigFromURL(search, dumpStrict) ==
  IF ~Truthy(search.configParam) THEN JNull
  ELSE optDecompressJSON(TemplateText(search.configParam.inflates), dumpStrict)

\* The URL after updateURLWithConfig(config); unchanged when compressYAML
\* gives null.
updateURLWithConfig(c, search) ==
  LET compressedJSON == optCompressYAML(c)
  IN  IF compressedJSON = JNull THEN search
      ELSE Search(Encoded(compressedJSON))

\* The calendar container after renderCalendar.
Calendar(yearList, hps, zone) ==
  [t |-> "calendar", years |-> renderCalendar(yearList, hps, zone)]

\* Variant: the URL is rewritten before the configuration is validated.
handleSave_urlFirst(input, timezoneValue, container, search) ==
  LET result == parseAndValidateYAML(input)
      zone == getCurrentTimezone(timezoneValue)
  IN  IF ~result.valid \/ ~Truthy(result.config)
      THEN [calendarContainer |-> container,
            location |-> Search(Encoded(CompactText(<<JArr(<<>>), JArr(<<>>),
                                                      JStr(zone)>>))),
            alertMessage |-> result.error]
      ELSE LET validated == AsConfig(result.config)
           IN  [calendarContainer |->
                  Calendar(validated.years, validated.highlightPeriods, zone),
                location |->
                  updateURLWithConfig([timezone |-> zone] @@ validated, search),
                alertMessage |-> None]

\* The container, the URL and the alert after handleSave.
handleSave(input, timezoneValue, container, search) ==
  LET result == parseAndValidateYAML(input)
      zone == getCurrentTimezone(timezoneValue)
  IN  IF ~result.valid \/ ~Truthy(result.config)
      THEN [calendarContainer |-> container,
            location |-> search,
            alertMessage |-> result.error]
      ELSE LET validated == AsConfig(result.config)
           IN  [calendarContainer |->
                  Calendar(validated.years, validated.highlightPeriods, zone),
                location |->
                  updateURLWithConfig([timezone |-> zone] @@ validated, search),
                alertMessage |-> None]

(***************************************************************************)
(* Inputs of the application.                                              *)
(***************************************************************************)
AppConfigs ==
  { [years |-> <<1970>>,
     highlightPeriods |->
       << [start |-> DateStr(1970, 0, 1), end |-> DateStr(1970, 0, 2),
           color |-> "#ff0000", label |-> "Trip"] >>],
    [years |-> <<1970, 1971>>,
     highlightPeriods |->
       << [dates |-> <<DateStr(1971, 0, 1)>>, color |-> "#0000ff"] >>,
     timezone |-> "UTC"],
    [years |-> <<>>, highlightPeriods |-> <<>>] }

\* Texts the user can leave in the editor: valid configurations, a text
\* js-yaml rejects, the empty text, and configurations validateConfig
\* rejects.
EditorTexts ==
  {configToYAML(c) : c \in AppConfigs}
  \cup { YAMLText(Thrown),
         YAMLText(Undefined),
         YAMLText(JObj(<<>>)),
         YAMLText(JObj([years |-> JArr(<<JNum(1800)>>),
                        highlightPeriods |-> JArr(<<>>)])),
         YAMLText(JObj([years |-> JArr(<<JNum(1970)>>),
                        highlightPeriods |->
                          JArr(<<JObj([start |-> DateString(0),
                                       end |-> DateString(1)])>>)])) }

\* The URLs a page can be loaded with: without a parameter, with an empty
\* one, with one LZString cannot inflate, with inflated texts that are not a
\* compact string of the expected shape, and with the URLs a save writes.
Searches ==
  { Search(JNull),
    Search(JStr("")),
    Search(Encoded(JNull)),
    Search(Encoded(GarbageText)),
    Search(Encoded(CompactText(<<>>))),
    Search(Encoded(CompactText(<<JNum(5)>>))),
    Search(Encoded(CompactText(<<JArr(<<JNum(1)>>)>>))),
    Search(Encoded(CompactText(<<JArr(<<JNum(1)>>),
                                 JArr(<<JArr(<<JNum(864)>>)>>)>>))) }
  \cup {Search(Encoded(optCompressYAML(c))) : c \in AppConfigs}
  \cup {Search(Encoded(compressYAML([timezone |-> z] @@ c))) :
          c \in AppConfigs, z \in {zoneName}}

InitApp ==
  /\ configInput = YAMLText(Undefined)
  /\ timezoneSelect = "auto"
  /\ calendarContainer = None
  /\ location \in Searches
  /\ alertMessage = None
  /\ handler = "none"
  /\ CodecIdle
  /\ ResolverIdle
  /\ RenderIdle
  /\ GradientIdle
  /\ ConfigManagerIdle
  /\ PreprocessorIdle
  /\ UIIdle

\* The options of the timezone selector: the sentinel and the zones of the
\* model.  The page that lists them is not part of the sources.
TimezoneOptions == {"auto"} \cup Zones

\* timezoneSelect.value = v, read back: a select element whose options do
\* not have the value selects nothing and its value is ''.
selectValue(v) == IF v \in TimezoneOptions THEN v ELSE ""

\* The page after init: the editor and the selector as init set them, the
\* container, the URL and the alert as the save left them.
pageAfterInit(input, timezoneValue, saved) ==
  [configInput |-> input,
   timezoneSelect |-> timezoneValue,
   calendarContainer |-> saved.calendarContainer,
   location |-> saved.location,
   alertMessage |-> saved.alertMessage]

\* CalendarApp.init on a newly loaded page, with the save it ends with: the
\* editor, the selector, the container, the URL and the alert after it.  The
\* selector of a new page is on "auto" and its container is empty.
init(search, dumpStrict, currentYear) ==
  LET configFromURL == getConfigFromURL(search, dumpStrict)
      input == IF configFromURL # JNull
               THEN configToYAML(configFromURL)
               ELSE configToYAML(getDefaultConfig(currentYear))
      timezoneValue == IF /\ configFromURL # JNull
                          /\ HasTruthy(configFromURL, "timezone")
                       THEN selectValue(configFromURL.timezone)
                       ELSE "auto"
  IN  pageAfterInit(input, timezoneValue,
                    handleSave(input, timezoneValue, None, search))

\* The page is opened.
AppInit ==
  /\ handler = "none"
  /\ \E dumpStrict \in BOOLEAN, currentYear \in RenderYearPool :
       \E page \in {init(location, dumpStrict, currentYear)} :
           /\ configInput' = page.configInput
           /\ timezoneSelect' = page.timezoneSelect
           /\ calendarContainer' = page.calendarContainer
           /\ location' = page.location
           /\ alertMessage' = page.alertMessage
  /\ handler' = "init"
  /\ UNCHANGED <<codecVars, resolverVars, renderVars, gradientVars,
                 configManagerVars, preprocessorVars,
                 uiVars>>

\* The page is loaded again from the URL it shows.
LoadPage ==
  /\ handler # "none"
  /\ \E dumpStrict \in BOOLEAN, currentYear \in RenderYearPool :
       \E page \in {init(location, dumpStrict, currentYear)} :
           /\ configInput' = page.configInput
           /\ timezoneSelect' = page.timezoneSelect
           /\ calendarContainer' = page.calendarContainer
           /\ location' = page.location
           /\ alertMessage' = page.alertMessage
  /\ handler' = "load"
  /\ UNCHANGED <<codecVars, resolverVars, renderVars, gradientVars,
                 configManagerVars, preprocessorVars,
                 uiVars>>

\* The user replaces the text of the editor.
EditConfig ==
  /\ handler # "none"
  /\ configInput' \in EditorTexts
  /\ alertMessage' = None
  /\ handler' = "edit"
  /\ UNCHANGED <<timezoneSelect, calendarContainer, location>>
  /\ UNCHANGED <<codecVars, resolverVars, renderVars, gradientVars,
                 configManagerVars, preprocessorVars,
                 uiVars>>

\* The user picks a timezone.
SelectTimezone ==
  /\ handler # "none"
  /\ timezoneSelect' \in Timezones
  /\ alertMessage' = None
  /\ handler' = "select"
  /\ UNCHANGED <<configInput, calendarContainer, location>>
  /\ UNCHANGED <<codecVars, resolverVars, renderVars, gradientVars,
                 configManagerVars, preprocessorVars,
                 uiVars>>

\* A click on the save button.
Save ==
  /\ handler # "none"
  /\ \E saved \in {handleSave(configInput, timezoneSelect,
                                calendarContainer, location)} :
         /\ calendarContainer' = saved.calendarContainer
         /\ location' = saved.location
         /\ alertMessage' = saved.alertMessage
  /\ handler' = "save"
  /\ UNCHANGED <<configInput, timezoneSelect>>
  /\ UNCHANGED <<codecVars, resolverVars, renderVars, gradientVars,
                 configManagerVars, preprocessorVars,
                 uiVars>>

NextApp == AppInit \/ LoadPage \/ EditConfig \/ SelectTimezone \/ Save

SpecApp == InitApp /\ [][NextApp]_vars

\* The config parameter is present and cannot be decoded: LZString does not
\* inflate it, or it inflates to a malformed compact string.
Undecodable(search) ==
  /\ Truthy(search.configParam)
  /\ \/ search.configParam.inflates = JNull
     \/ Malformed(search.configParam.inflates)

\* The page shows the default configuration of some current year.
ShowsDefault(input, container, timezoneValue) ==
  \E currentYear \in RenderYearPool :
    /\ input = configToYAML(getDefaultConfig(currentYear))
    /\ container = Calendar(getDefaultConfig(currentYear).years,
                            getDefaultConfig(currentYear).highlightPeriods,
                            getCurrentTimezone(timezoneValue))

\* C19: when the page is loaded with a config parameter that cannot be
\* decoded, init fills the editor with the default configuration and
\* renders the calendar from it.
C19_UndecodableGivesDefault ==
  [][(handler = "none" /\ handler' = "init" /\ Undecodable(location))
       => ShowsDefault(configInput', calendarContainer', timezoneSelect')]_vars

\* The configuration in the editor passes parsing and validation.
PassesValidation(input) == parseAndValidateYAML(input).valid

\* C20: a save of a configuration that fails parsing or validation raises
\* an alert and leaves the editor text, the rendered calendar and the URL
\* as they were; the URL only ever changes to the encoding of a
\* configuration that passed validation.
C20_FailedSaveChangesNothing ==
  [][/\ (handler # "none" /\ handler' = "save" /\ ~PassesValidation(configInput))
        => /\ alertMessage' # None
           /\ configInput' = configInput
           /\ calendarContainer' = calendarContainer
           /\ location' = location
     /\ (location' # location)
        => /\ PassesValidation(configInput')
           /\ location' = Search(Encoded(optCompressYAML(
                            [timezone |-> getCurrentTimezone(timezoneSelect')]
                              @@ AsConfig(configInput'.loads))))]_vars

\* A save has failed after a calendar was rendered and the URL written.
C20_Witness ==
  /\ handler = "save"
  /\ alertMessage # None
  /\ calendarContainer # None
  /\ location \notin Searches
  /\ ~PassesValidation(configInput)

\* C21: when the page is loaded from the URL written by a successful save
\* made with timezone T selected, the decoded configuration carries the
\* timezone and init sets the selector to T (for "auto", to "auto" or to
\* the zone it was resolved to).
C21_TimezoneRestored ==
  [][(handler = "save" /\ alertMessage = None /\ handler' = "load")
       => /\ \A b \in BOOLEAN :
               /\ getConfigFromURL(location, b) # JNull
               /\ HasTruthy(getConfigFromURL(location, b), "timezone")
               /\ getConfigFromURL(location, b).timezone
                    = getCurrentTimezone(timezoneSelect)
          /\ timezoneSelect' \in {timezoneSelect,
                                  getCurrentTimezone(timezoneSelect)}]_vars

(***************************************************************************)
(* The resolver on dates that cannot be resolved: a malformed date string  *)
(* or a timezone luxon does not know.                                      *)
(***************************************************************************)
UnknownZone == "Mars/Phobos"

UnresolvedPool ==
  { [start |-> 0, end |-> 2, color |-> "#ff0000", label |-> "A"],
    [start |-> MalformedDateStr, end |-> 2, color |-> "#00ff00", label |-> "B"],
    [start |-> 0, end |-> MalformedDateStr, color |-> "#0000ff"],
    [dates |-> <<MalformedDateStr>>, color |-> "#ffd700", label |-> "C"],
    [dates |-> <<1, MalformedDateStr>>, color |-> "#00ffff"],
    [dates |-> <<3, 1>>, color |-> "#ff00ff", label |-> "D"] }

InitUnresolved ==
  /\ highlightPeriods \in SeqsUpTo(UnresolvedPool, MaxPeriods)
  /\ timezone \in Zones \cup {UnknownZone}
  /\ periods = <<>>
  /\ day = 0
  /\ colors = <<>>
  /\ usedPeriods = {}
  /\ inRange = None
  /\ called = "none"
  /\ CodecIdle
  /\ RestIdle

SpecUnresolved == InitUnresolved /\ [][NextResolver]_vars

\* The date strings of a period.
DateStrings(p) ==
  (IF "start" \in DOMAIN p THEN {p.start} ELSE {})
  \cup (IF "end" \in DOMAIN p THEN {p.end} ELSE {})
  \cup (IF "dates" \in DOMAIN p THEN Range(p.dates) ELSE {})

\* Some date string of the period cannot be resolved in the zone.
Unresolvable(p, zone) ==
  DateStrings(p) # {} /\ (zone \notin Zones \/ MalformedDateStr \in DateStrings(p))

\* The instants at which createMonthTable asks for the colours of a day.
CellInstants == {parseDateInTimezone(d, z) : d \in QueryDays, z \in Zones}

\* The normalized period matches no day.
NeverMatches(n) == \A date \in CellInstants : PeriodPushes(date, n) = 0

\* C22: a period with a date string that cannot be resolved in the timezone
\* is reported by normalization; no normalized period is returned for it
\* that matches no day.
C22_UnresolvableReported ==
  Normalized =>
    \A i \in 1..Len(highlightPeriods) :
      Unresolvable(highlightPeriods[i], timezone)
        => ~(i <= Len(periods) /\ NeverMatches(periods[i]))

(***************************************************************************)
(* The day-matching loop inside createMonthTable of the script, which      *)
(* getColorsForDate replaced.                                              *)
(***************************************************************************)
RECURSIVE inlineDatePushes(_, _, _)
\* for (const dObj of period.dateObjects): a colour is pushed for every
\* entry equal to the date; the loop has no break.
inlineDatePushes(dateObj, dateObjects, k) ==
  IF k > Len(dateObjects) THEN 0
  ELSE (IF dateObj # InvalidDate /\ dateObj = dateObjects[k] THEN 1 ELSE 0)
       + inlineDatePushes(dateObj, dateObjects, k + 1)

inlinePeriodPushes(dateObj, period) ==
  IF "startDate" \in DOMAIN period /\ "endDate" \in DOMAIN period
  THEN (IF RangeHit(dateObj, period) THEN 1 ELSE 0)
  ELSE IF "dateObjects" \in DOMAIN period
  THEN inlineDatePushes(dateObj, period.dateObjects, 1)
  ELSE 0

RECURSIVE inlineColorsLoop(_, _, _, _)
\* for (let i = 0; i < periods.length; i++) inside the cell loop
inlineColorsLoop(dateObj, ps, i, acc) ==
  IF i >= Len(ps) THEN acc
  ELSE LET pushes == inlinePeriodPushes(dateObj, ps[i + 1])
       IN  inlineColorsLoop(dateObj, ps, i + 1,
             [colors |-> acc.colors \o Repeat(ps[i + 1].color, pushes),
              usedPeriods |-> IF pushes > 0
                              THEN acc.usedPeriods \cup {i}
                              ELSE acc.usedPeriods])

InlinePool ==
  ResolverPool
  \cup { [start |-> 0, end |-> 1, dates |-> <<3>>, color |-> "#ffd700",
          label |-> "D"],
         [dates |-> <<1, 2, 1>>, color |-> "#00ffff", label |-> "E"] }

InitInline ==
  /\ highlightPeriods \in SeqsUpTo(InlinePool, MaxPeriods)
  /\ timezone \in Zones
  /\ periods = <<>>
  /\ day = 0
  /\ colors = <<>>
  /\ usedPeriods = {}
  /\ inRange = None
  /\ called = "none"
  /\ CodecIdle
  /\ RestIdle

\* A day cell of createMonthTable: new Date(year, month, currentDay) is the
\* midnight of the day in the zone of the browser.
InlineMatch ==
  /\ called \in {"normalizePeriods", "createMonthTable"}
  /\ \E d \in QueryDays, localZone \in Zones :
       LET dateObj == parseDateInTimezone(d, localZone)
           result == inlineColorsLoop(dateObj, periods, 0,
                       [colors |-> <<>>, usedPeriods |-> usedPeriods])
       IN  /\ day' = d
           /\ colors' = result.colors
           /\ usedPeriods' = result.usedPeriods
  /\ called' = "createMonthTable"
  /\ UNCHANGED <<highlightPeriods, timezone, periods, inRange>>
  /\ UNCHANGED <<codecVars, restVars>>

NextInline == NormalizePeriods \/ InlineMatch

SpecInline == InitInline /\ [][NextInline]_vars

\* C23: for the date of a cell and the normalized periods, the inline loop
\* of createMonthTable gives the colour list and the additions to
\* usedPeriods that getColorsForDate gives.
C23_InlineLoopEquivalent ==
  [][called' = "createMonthTable"
       => \E localZone \in Zones :
            LET result == getColorsForDate(
                            parseDateInTimezone(day', localZone),
                            periods, usedPeriods)
            IN  /\ colors' = result.colors
                /\ usedPeriods' = result.usedPeriods]_vars

(***************************************************************************)
(* ColorPicker: typing '#' in the configuration text defers a callback     *)
(* that records the position of the '#' and opens the modal; the apply     *)
(* button replaces the '#' by the chosen colour; the close button and a    *)
(* click on the modal backdrop close the modal.  The text is a sequence of *)
(* characters and positions count from 0.                                  *)
(***************************************************************************)
\* An index argument of String.prototype.slice: a negative index counts
\* from the end, every index is clamped to the text.
sliceIndex(i, length) ==
  IF i < 0 THEN (IF length + i < 0 THEN 0 ELSE length + i)
  ELSE IF i > length THEN length ELSE i

\* text.slice(from, to)
slice(text, from, to) ==
  SubSeq(text, sliceIndex(from, Len(text)) + 1, sliceIndex(to, Len(text)))

\* Variant: a position stays recorded when the modal is hidden.
closeModal_keepsPosition ==
  [modalDisplay |-> "none", lastHashPosition |-> JNum(0)]

\* this.elements.modal.style.display = 'none'; this.lastHashPosition = null
closeModal == [modalDisplay |-> "none", lastHashPosition |-> JNull]

\* Variant: the '#' is kept in front of the rest of the text.
insertColorAtPosition_keepsHash(text, position, color) ==
  LET before == slice(text, 0, position)
      after == slice(text, position, Len(text))
      newText == before \o color \o after
      cursorPos == Len(before) + Len(color)
  IN  [value |-> newText, selectionStart |-> cursorPos]

\* The text and the cursor after insertColorAtPosition(color), for a
\* recorded position.
insertColorAtPosition(text, position, color) ==
  LET before == slice(text, 0, position)
      after == slice(text, position + 1, Len(text))
      newText == before \o color \o after
      cursorPos == Len(before) + Len(color)
  IN  [value |-> newText, selectionStart |-> cursorPos]

\* The values of the colour input: '#rrggbb'.
ColorValues ==
  { <<"#", "f", "f", "0", "0", "0", "0">>,
    <<"#", "0", "0", "f", "f", "0", "0">> }

InitialTexts == {<<>>, <<"a">>, <<"a", "b">>}

InitPicker ==
  /\ configText \in InitialTexts
  /\ selectionStart \in 0..Len(configText)
  /\ modalDisplay = "none"
  /\ lastHashPosition = JNull
  /\ pendingTimers = 0
  /\ pickerEvent = "none"
  /\ MonthIdle
  /\ CodecIdle
  /\ ResolverIdle
  /\ RenderIdle
  /\ GradientIdle
  /\ ConfigManagerIdle
  /\ PreprocessorIdle
  /\ AppIdle

\* keydown with e.key === '#': the callback is deferred and the browser
\* inserts the character where the user has put the cursor.
KeydownHash ==
  /\ Len(configText) < MaxText
  /\ pendingTimers < MaxTimers
  /\ \E cursor \in 0..Len(configText) :
       /\ configText' = SubSeq(configText, 1, cursor) \o <<"#">>
                        \o SubSeq(configText, cursor + 1, Len(configText))
       /\ selectionStart' = cursor + 1
  /\ pendingTimers' = pendingTimers + 1
  /\ pickerEvent' = "keydown"
  /\ UNCHANGED <<modalDisplay, lastHashPosition>>
  /\ UNCHANGED <<codecVars, resolverVars, renderVars, gradientVars,
                 configManagerVars, preprocessorVars, appVars, monthVars>>

\* The callback of setTimeout(..., 0): the position is recorded and
\* openModal shows the modal.
TimerCallback ==
  /\ pendingTimers > 0
  /\ lastHashPosition' = JNum(selectionStart - 1)
  /\ modalDisplay' = "block"
  /\ pendingTimers' = pendingTimers - 1
  /\ pickerEvent' = "timer"
  /\ UNCHANGED <<configText, selectionStart>>
  /\ UNCHANGED <<codecVars, resolverVars, renderVars, gradientVars,
                 configManagerVars, preprocessorVars, appVars, monthVars>>

\* A click on the apply button, with the colour the input holds.
ApplyClick ==
  /\ \E chosenColor \in ColorValues :
       IF lastHashPosition # JNull
       THEN LET inserted == insertColorAtPosition(configText,
                                                  lastHashPosition.n,
                                                  chosenColor)
            IN  /\ configText' = inserted.value
                /\ selectionStart' = inserted.selectionStart
       ELSE UNCHANGED <<configText, selectionStart>>
  /\ modalDisplay' = closeModal.modalDisplay
  /\ lastHashPosition' = closeModal.lastHashPosition
  /\ pickerEvent' = "apply"
  /\ UNCHANGED pendingTimers
  /\ UNCHANGED <<codecVars, resolverVars, renderVars, gradientVars,
                 configManagerVars, preprocessorVars, appVars, monthVars>>

\* A click on the close button.
CloseClick ==
  /\ modalDisplay' = closeModal.modalDisplay
  /\ lastHashPosition' = closeModal.lastHashPosition
  /\ pickerEvent' = "close"
  /\ UNCHANGED <<configText, selectionStart, pendingTimers>>
  /\ UNCHANGED <<codecVars, resolverVars, renderVars, gradientVars,
                 configManagerVars, preprocessorVars, appVars, monthVars>>

\* A click on the window: the modal is closed when the modal itself, the
\* backdrop, is the target, which takes a modal that is shown.
WindowClick ==
  /\ \E onModal \in BOOLEAN :
       /\ onModal => modalDisplay = "block"
       /\ modalDisplay' = IF onModal THEN closeModal.modalDisplay
                          ELSE modalDisplay
       /\ lastHashPosition' = IF onModal THEN closeModal.lastHashPosition
                              ELSE lastHashPosition
  /\ pickerEvent' = "click"
  /\ UNCHANGED <<configText, selectionStart, pendingTimers>>
  /\ UNCHANGED <<codecVars, resolverVars, renderVars, gradientVars,
                 configManagerVars, preprocessorVars, appVars, monthVars>>

NextPicker ==
  KeydownHash \/ TimerCallback \/ ApplyClick \/ CloseClick \/ WindowClick

SpecPicker == InitPicker /\ [][NextPicker]_vars

\* C24: an apply with a recorded position p replaces the one character at
\* p by the chosen colour, keeps all other characters, puts the cursor
\* right after the colour, hides the modal and clears the position; an
\* apply without a recorded position keeps the text and hides the modal.
C24_ApplyReplacesHash ==
  [][pickerEvent' = "apply"
       => /\ modalDisplay' = "none"
          /\ lastHashPosition' = JNull
          /\ IF lastHashPosition # JNull
             THEN \E chosenColor \in ColorValues :
                    /\ Len(configText') = Len(configText) - 1 + Len(chosenColor)
                    /\ configText' =
                         SubSeq(configText, 1, lastHashPosition.n)
                         \o chosenColor
                         \o SubSeq(configText, lastHashPosition.n + 2,
                                   Len(configText))
                    /\ selectionStart' = lastHashPosition.n + Len(chosenColor)
             ELSE /\ configText' = configText
                  /\ selectionStart' = selectionStart]_vars

\* A colour has been applied at a '#' typed between other characters.
C24_Witness ==
  /\ pickerEvent = "apply"
  /\ configText = <<"a", "#", "f", "f", "0", "0", "0", "0", "b">>
  /\ selectionStart = Len(configText) - 1
  /\ modalDisplay = "none"

\* C29: a hidden modal has no recorded position.
C29_HiddenHasNoPosition ==
  modalDisplay = "none" => lastHashPosition = JNull

\* The modal was closed while a deferred callback was still pending.
C29_Witness ==
  /\ modalDisplay = "none"
  /\ pickerEvent \in {"close", "click", "apply"}
  /\ pendingTimers > 0


(***************************************************************************)
(* createMonthTable of CalendarRenderer.ts: the body of one month table.   *)
(* tableMonth holds what new Date(year, month, 1).getDay() and             *)
(* new Date(year, month + 1, 0).getDate() give for the month; monthTable   *)
(* holds the rows of the tbody and the dates handed to getColorsForDate.   *)
(***************************************************************************)
FirstWeekdays == 0..6
MonthLengths == 28..31

\* `${year}-${monthStr}-${dayStr}` as a calendar day of the model: the month
\* lies on days -15..15, so that the midnights of all its days are within
\* the integers of TLC in every zone.
dateStrOfDay(currentDay) == currentDay - 16

DigitChars == <<"0", "1", "2", "3", "4", "5", "6", "7", "8", "9">>

\* currentDay.toString() for a day of the month, as its characters.
toString(n) ==
  IF n < 10 THEN <<DigitChars[n + 1]>>
  ELSE <<DigitChars[(n \div 10) + 1], DigitChars[(n % 10) + 1]>>

\* Variant: the rows are counted with Math.floor.
weeksOf_floor(totalCells) == totalCells \div 7

\* Math.ceil(totalCells / 7)
weeksOf(totalCells) == MathCeilDiv(totalCells, 7)

\* Variant: the cell date is resolved in the local zone of the environment.
cellDateObj_localZone(currentDay, zone) ==
  parseDateInTimezone(dateStrOfDay(currentDay), zoneName)

\* parseDateInTimezone(dateStr, timezone) of a day cell.
cellDateObj(currentDay, zone) ==
  parseDateInTimezone(dateStrOfDay(currentDay), zone)

\* The two nested loops over w and d, as one pass over cellIndex = w * 7 + d.
RECURSIVE monthCells(_, _, _, _, _, _, _)
monthCells(cellIndex, cellCount, currentDay, m, ps, zone, acc) ==
  IF cellIndex >= cellCount THEN acc
  ELSE IF cellIndex >= m.firstDay /\ currentDay <= m.daysInMonth
  THEN LET dateObj == cellDateObj(currentDay, zone)
           result == getColorsForDate(dateObj, ps, acc.usedPeriods)
           td == [textContent |-> toString(currentDay),
                  colors |-> result.colors,
                  background |-> IF Len(result.colors) > 0
                                 THEN generateGradient(result.colors)
                                 ELSE None]
       IN  monthCells(cellIndex + 1, cellCount, currentDay + 1, m, ps, zone,
                      [cells |-> Append(acc.cells, td),
                       usedPeriods |-> result.usedPeriods,
                       calls |-> Append(acc.calls, dateStrOfDay(currentDay))])
  ELSE monthCells(cellIndex + 1, cellCount, currentDay, m, ps, zone,
                  [acc EXCEPT !.cells =
                     Append(@, [textContent |-> <<>>, colors |-> <<>>,
                                background |-> None])])

createMonthTable(m, ps, used, zone) ==
  LET totalCells == m.firstDay + m.daysInMonth
      weeks == weeksOf(totalCells)
      filled == monthCells(0, weeks * 7, 1, m, ps, zone,
                           [cells |-> <<>>, usedPeriods |-> used,
                            calls |-> <<>>])
  IN  [rows |-> [w \in 1..weeks |->
                   SubSeq(filled.cells, (w - 1) * 7 + 1, w * 7)],
       calls |-> filled.calls,
       usedPeriods |-> filled.usedPeriods]

\* Periods on the days of the month: the first days, the last days (partly
\* outside a month of fewer than 31 days), the days around the change of
\* the New York offset, and single dates.
MonthPool ==
  {[start |-> -15, end |-> -13, color |-> "#ff0000"],
   [start |-> 12, end |-> 15, color |-> "#00ff00"],
   [start |-> 1, end |-> 3, color |-> "#0000ff"],
   [dates |-> <<15, -15>>, color |-> "#ff0000"],
   [dates |-> <<2>>, color |-> "#00ff00"]}

InitMonth ==
  /\ highlightPeriods \in SeqsUpTo(MonthPool, MaxPeriods)
  /\ timezone \in Zones
  /\ periods = <<>>
  /\ day = 0
  /\ colors = <<>>
  /\ usedPeriods = {}
  /\ inRange = None
  /\ called = "none"
  /\ tableMonth = None
  /\ monthTable = None
  /\ CodecIdle
  /\ RenderIdle /\ GradientIdle /\ ConfigManagerIdle /\ PreprocessorIdle
  /\ AppIdle /\ PickerIdle

\* renderCalendar for one month: the periods are normalized with the
\* timezone, and the table of the month is built with the same timezone.
CreateMonthTable ==
  /\ called = "none"
  /\ \E first \in FirstWeekdays, length \in MonthLengths :
       LET m == [firstDay |-> first, daysInMonth |-> length]
           normalizedPeriods == normalizePeriods(highlightPeriods, timezone)
           table == createMonthTable(m, normalizedPeriods, {}, timezone)
       IN  /\ tableMonth' = m
           /\ periods' = normalizedPeriods
           /\ monthTable' = [rows |-> table.rows, calls |-> table.calls]
           /\ usedPeriods' = table.usedPeriods
  /\ called' = "createMonthTable"
  /\ UNCHANGED <<highlightPeriods, timezone, day, colors, inRange>>
  /\ UNCHANGED <<codecVars, renderVars, gradientVars, configManagerVars,
                 preprocessorVars, appVars, pickerVars>>

\* A new month of the same configuration is rendered.
NextMonth ==
  /\ called = "createMonthTable"
  /\ tableMonth' = None
  /\ monthTable' = None
  /\ periods' = <<>>
  /\ usedPeriods' = {}
  /\ called' = "none"
  /\ UNCHANGED <<highlightPeriods, timezone, day, colors, inRange>>
  /\ UNCHANGED <<codecVars, renderVars, gradientVars, configManagerVars,
                 preprocessorVars, appVars, pickerVars>>

NextMonthTable == CreateMonthTable \/ NextMonth

SpecMonth == InitMonth /\ [][NextMonthTable]_vars

\* The cells of the table in document order.
RECURSIVE FlatCells(_)
FlatCells(rows) ==
  IF rows = <<>> THEN <<>> ELSE rows[1] \o FlatCells(Tail(rows))

\* The cell that shows day c of the month.
CellOfDay(c) == FlatCells(monthTable.rows)[tableMonth.firstDay + c]

\* C25: when the table is built with the timezone normalizePeriods used, a
\* period that contains calendar day D colours exactly the cell of day D:
\* the cell of every day carries the colours of the periods containing that
\* day and of no other period.
C25_PeriodColoursItsDayCell ==
  called = "createMonthTable" =>
    \A c \in 1..tableMonth.daysInMonth :
      CellOfDay(c).colors = ColorsOfMatching(dateStrOfDay(c))

\* A New York table whose periods end on the day the offset changes and on
\* the last day of the month.
C25_Witness ==
  /\ called = "createMonthTable"
  /\ timezone = "America/New_York"
  /\ tableMonth = [firstDay |-> 6, daysInMonth |-> 31]
  /\ highlightPeriods = <<[start |-> 1, end |-> 3, color |-> "#0000ff"],
                          [dates |-> <<15, -15>>, color |-> "#ff0000"]>>
  /\ CellOfDay(19).colors = <<"#0000ff">>
  /\ CellOfDay(20).colors = <<>>
  /\ CellOfDay(31).colors = <<"#ff0000">>

\* The least number of rows of seven cells that hold n cells.
RowsFor(n) == CHOOSE w \in 0..n : 7 * w >= n /\ 7 * (w - 1) < n

\* C26: the table has ceil((firstWeekday + daysInMonth) / 7) rows of seven
\* cells; the cells firstWeekday .. firstWeekday + daysInMonth - 1 carry the
\* days 1 .. daysInMonth in order, every other cell is blank, and
\* getColorsForDate is called once for every day of the month.
C26_MonthTableShape ==
  called = "createMonthTable" =>
    LET first == tableMonth.firstDay
        length == tableMonth.daysInMonth
        cells == FlatCells(monthTable.rows)
    IN  /\ Len(monthTable.rows) = RowsFor(first + length)
        /\ \A w \in 1..Len(monthTable.rows) : Len(monthTable.rows[w]) = 7
        /\ \A k \in 1..Len(cells) :
             IF k - 1 >= first /\ k - 1 <= first + length - 1
             THEN cells[k].textContent = toString(k - first)
             ELSE cells[k].textContent = <<>>
        /\ monthTable.calls = [c \in 1..length |-> dateStrOfDay(c)]

\* A month of 31 days that starts on a Saturday takes six rows.
C26_Witness ==
  /\ called = "createMonthTable"
  /\ tableMonth = [firstDay |-> 6, daysInMonth |-> 31]
  /\ Len(monthTable.rows) = 6
  /\ monthTable.rows[1][7].textContent = <<"1">>
  /\ monthTable.rows[6][2].textContent = <<"3", "1">>
  /\ monthTable.rows[6][3].textContent = <<>>
  /\ Len(monthTable.calls) = 31


(***************************************************************************)
(* The codec on configurations that lack years or highlightPeriods.        *)
(***************************************************************************)
PartialConfigs ==
  LET partial == {<<>>}
        \cup {[years |-> ys] : ys \in SeqsUpTo(YearPool, MaxYears)}
        \cup {[highlightPeriods |-> ps] : ps \in SeqsUpTo(PeriodPool, MaxPeriods)}
  IN  partial \cup {[timezone |-> tz] @@ c : tz \in Timezones, c \in partial}

InitPartial ==
  /\ config \in PartialConfigs \cup MultiPeriodConfigs \cup {None}
  /\ compact = None
  /\ decoded = None
  /\ ResolverIdle
  /\ RestIdle

SpecPartial == InitPartial /\ [][NextCodec]_vars

YearsOf(c) == IF "years" \in DOMAIN c THEN c.years ELSE <<>>

PeriodsOf(c) ==
  IF "highlightPeriods" \in DOMAIN c THEN c.highlightPeriods ELSE <<>>

\* C27: the output of compressYAML, wrapped in brackets again, is an array
\* of 2 or 3 elements; element 0 is the list of the year offsets and
\* element 1 the list of the periods, an empty list standing for a list the
\* configuration lacks, and decompressJSON reads the years from element 0.
C27_TopLevelShape ==
  (config # None /\ compact # None) =>
    /\ compact.valid
    /\ Len(compact.body) \in {2, 3}
    /\ compact.body[1] =
         JArr([i \in 1..Len(YearsOf(config)) |->
                 JNum(YearsOf(config)[i] - EPOCH_YEAR)])
    /\ IsArray(compact.body[2])
    /\ Len(compact.body[2].a) = Len(PeriodsOf(config))
    /\ decoded # None =>
         /\ "years" \in DOMAIN decoded
         /\ decoded.years = YearsOf(config)
         /\ "highlightPeriods" \in DOMAIN decoded
         /\ Len(decoded.highlightPeriods) = Len(PeriodsOf(config))

\* A configuration without years: an empty list takes the place of the
\* years and the period is read back as a period.
C27_Witness ==
  /\ config = [highlightPeriods |->
                 <<[start |-> 1, end |-> 1, color |-> "#00ff00"]>>]
  /\ compact # None
  /\ compact.body[1] = JArr(<<>>)
  /\ Len(compact.body) = 2
  /\ decoded # None
  /\ decoded.years = <<>>
  /\ Len(decoded.highlightPeriods) = 1

\* C28: for a configuration validateConfig accepts, every discrete period
\* comes back from decompressJSON(compressYAML(c)) with as many dates as it
\* had; an empty list of dates stays empty.
C28_DateCountKept ==
  (RoundTripped /\ validateConfig(AsValue(config)).valid) =>
    /\ "highlightPeriods" \in DOMAIN decoded
    /\ Len(decoded.highlightPeriods) = Len(config.highlightPeriods)
    /\ \A i \in 1..Len(config.highlightPeriods) :
         IsDatesPeriod(config.highlightPeriods[i]) =>
           /\ "dates" \in DOMAIN decoded.highlightPeriods[i]
           /\ Len(decoded.highlightPeriods[i].dates)
                = Len(config.highlightPeriods[i].dates)


(***************************************************************************)
(* The page script (script.ts): init and the handler of the save button,   *)
(* with the codec of the script, which writes the timezone as the third    *)
(* element.                                                                *)
(***************************************************************************)
\* getConfigFromURL of the script: compressedJSON.length throws when
\* LZString gives null, the catch block alerts and null is returned.
scriptGetConfigFromURL(search, dumpStrict) ==
  IF ~Truthy(search.configParam) THEN [config |-> JNull, alert |-> None]
  ELSE IF search.configParam.inflates = JNull
  THEN [config |-> JNull,
        alert |-> [message |-> "Error decoding configuration from URL",
                   at |-> JNull]]
  ELSE [config |-> decompressJSON(search.configParam.inflates, dumpStrict),
        alert |-> None]

\* updateURLWithConfig of the script: compressYAML of the script.
scriptUpdateURLWithConfig(c, search) ==
  LET compressedJSON == compressYAML(c)
  IN  IF compressedJSON = JNull THEN search
      ELSE Search(Encoded(compressedJSON))

\* generateCalendar of the script.  It differs from renderCalendar in the
\* inline loop of its createMonthTable (inlineColorsLoop), for a period that
\* lists a date twice; no configuration of the inputs here does.
generateCalendar(yearList, hps, zone) == Calendar(yearList, hps, zone)

ErrorAlert(message) == [message |-> message, at |-> JNull]

\* The click handler of the save button: the container, the URL and the
\* alert after it, and the timezone of the configuration it compresses.
\* jsyaml.load throws or gives a value without properties, or
\* highlightPeriods.length throws, or the lists are not arrays: the catch
\* block alerts and nothing else changes.
saveButtonClick(input, timezoneValue, container, search) ==
  LET loaded == input.loads
      zone == getCurrentTimezone(timezoneValue)
      failed(message) == [calendarContainer |-> container,
                          location |-> search,
                          alertMessage |-> ErrorAlert(message),
                          saved |-> FALSE,
                          timezone |-> ""]
  IN  IF loaded.t \in {"thrown", "null", "undefined"}
      THEN failed("Error parsing configuration")
      ELSE IF GetProperty(loaded, "highlightPeriods").t \in {"null", "undefined"}
      THEN failed("Error parsing configuration")
      ELSE IF \/ ~IsArray(GetProperty(loaded, "years"))
              \/ ~IsArray(GetProperty(loaded, "highlightPeriods"))
      THEN failed("Invalid configuration format.")
      ELSE LET parsed == AsConfig(loaded)
               configWithTimezone == [timezone |-> zone] @@ parsed
           IN  [calendarContainer |->
                  generateCalendar(parsed.years, parsed.highlightPeriods, zone),
                location |-> scriptUpdateURLWithConfig(configWithTimezone, search),
                alertMessage |-> None,
                saved |-> TRUE,
                timezone |-> configWithTimezone.timezone]

\* The page after init: the editor and the selector as init set them, the
\* rest as the click left it; the alert of the click replaces an earlier one.
scriptPage(input, timezoneValue, saved, urlAlert) ==
  [configInput |-> input,
   timezoneSelect |-> timezoneValue,
   calendarContainer |-> saved.calendarContainer,
   location |-> saved.location,
   alertMessage |-> IF saved.alertMessage # None THEN saved.alertMessage
                    ELSE urlAlert,
   saved |-> saved.saved,
   timezone |-> saved.timezone]

\* init of the script on a newly loaded page, with the click it ends with.
scriptInit(search, dumpStrict, currentYear) ==
  LET fromURL == scriptGetConfigFromURL(search, dumpStrict)
      configFromURL == fromURL.config
      input == IF configFromURL # JNull
               THEN configToYAML(configFromURL)
               ELSE configToYAML(getDefaultConfig(currentYear))
      timezoneValue == IF /\ configFromURL # JNull
                          /\ HasTruthy(configFromURL, "timezone")
                       THEN selectValue(configFromURL.timezone)
                       ELSE "auto"
  IN  scriptPage(input, timezoneValue,
                 saveButtonClick(input, timezoneValue, None, search),
                 fromURL.alert)

\* Texts the user can leave in the editor of the script: configurations
\* with and without a timezone key, a text js-yaml rejects, the empty
\* text, and texts without the two lists.
ScriptTexts ==
  {configToYAML(c) : c \in AppConfigs}
  \cup {configToYAML([timezone |-> "auto"] @@ c) : c \in AppConfigs}
  \cup { YAMLText(Thrown),
         YAMLText(Undefined),
         YAMLText(JStr("years")),
         YAMLText(JObj(<<>>)),
         YAMLText(JObj([years |-> JArr(<<JNum(1970)>>)])),
         YAMLText(JObj([years |-> JNum(1970),
                        highlightPeriods |-> JArr(<<>>)])) }

\* The URLs the page can be loaded with: without a parameter, with one
\* LZString cannot inflate, with a text that is not a compact string, with
\* the URLs a save writes, and with a third element of any text.
ScriptSearches ==
  { Search(JNull),
    Search(JStr("")),
    Search(Encoded(JNull)),
    Search(Encoded(GarbageText)),
    Search(Encoded(CompactText(<<JArr(<<JNum(1)>>)>>))) }
  \cup {Search(Encoded(compressYAML(c))) : c \in AppConfigs}
  \cup {Search(Encoded(CompactText(compressYAML(c).body \o <<JStr(z)>>))) :
          c \in {k \in AppConfigs : "timezone" \notin DOMAIN k},
          z \in {zoneName, "auto", UnknownZone}}

InitScript ==
  /\ configInput = YAMLText(Undefined)
  /\ timezoneSelect = "auto"
  /\ calendarContainer = None
  /\ location \in ScriptSearches
  /\ alertMessage = None
  /\ handler = "none"
  /\ timezone = "UTC"
  /\ highlightPeriods = <<>> /\ periods = <<>> /\ day = 0 /\ colors = <<>>
  /\ usedPeriods = {} /\ inRange = None /\ called = "none"
  /\ CodecIdle
  /\ RenderIdle
  /\ GradientIdle
  /\ ConfigManagerIdle
  /\ PreprocessorIdle
  /\ UIIdle

scriptRest ==
  <<codecVars, highlightPeriods, periods, day, colors, usedPeriods, inRange,
    called, renderVars, gradientVars, configManagerVars, preprocessorVars,
    uiVars>>

\* The page is opened, or loaded again from the URL it shows.  timezone
\* keeps the timezone of the configuration the last save compressed.
ScriptInit ==
  /\ \E dumpStrict \in BOOLEAN, currentYear \in RenderYearPool :
       \E page \in {scriptInit(location, dumpStrict, currentYear)} :
           /\ configInput' = page.configInput
           /\ timezoneSelect' = page.timezoneSelect
           /\ calendarContainer' = page.calendarContainer
           /\ location' = page.location
           /\ alertMessage' = page.alertMessage
           /\ timezone' = IF ~page.saved THEN timezone
                          ELSE page.timezone
           /\ handler' = IF ~page.saved THEN "init" ELSE "saved"
  /\ UNCHANGED scriptRest

\* The user replaces the text of the editor.
ScriptEdit ==
  /\ handler # "none"
  /\ configInput' \in ScriptTexts
  /\ alertMessage' = None
  /\ handler' = "edit"
  /\ UNCHANGED <<timezoneSelect, calendarContainer, location, timezone>>
  /\ UNCHANGED scriptRest

\* The user picks an option of the selector.
ScriptSelect ==
  /\ handler # "none"
  /\ timezoneSelect' \in TimezoneOptions
  /\ alertMessage' = None
  /\ handler' = "select"
  /\ UNCHANGED <<configInput, calendarContainer, location, timezone>>
  /\ UNCHANGED scriptRest

\* A click on the save button.
ScriptSave ==
  /\ handler # "none"
  /\ \E saved \in {saveButtonClick(configInput, timezoneSelect,
                                     calendarContainer, location)} :
         /\ calendarContainer' = saved.calendarContainer
         /\ location' = saved.location
         /\ alertMessage' = saved.alertMessage
         /\ timezone' = IF ~saved.saved THEN timezone
                        ELSE saved.timezone
         /\ handler' = IF ~saved.saved THEN "failed" ELSE "saved"
  /\ UNCHANGED <<configInput, timezoneSelect>>
  /\ UNCHANGED scriptRest

NextScript == ScriptInit \/ ScriptEdit \/ ScriptSelect \/ ScriptSave

SpecScript == InitScript /\ [][NextScript]_vars

\* The compact string of the URL has a third element, a timezone name.
HasTimezoneElement(search) ==
  /\ Truthy(search.configParam)
  /\ search.configParam.inflates # JNull
  /\ Len(search.configParam.inflates.body) = 3
  /\ search.configParam.inflates.body[3].t = "string"
  /\ search.configParam.inflates.body[3].s \notin {"", "auto"}

====
